---- MODULE Spec2Model ----
(***************************************************************************)
(* Streaming transcript -> sign-queue pipeline (src/speech_to_sign).       *)
(*                                                                         *)
(* Text is modelled as a sequence of one-character strings, so that the    *)
(* cleaning, finalisation and line-splitting code is computed character    *)
(* by character as the Python does.  A file is the sequence of its         *)
(* characters plus an existence flag; an output file is the sequence of    *)
(* the lines written to it.                                                *)
(*                                                                         *)
(* Specifications:                                                         *)
(*   SegSpec    - CleanerState fed an arbitrary sequence of lines          *)
(*   TailSpec   - finalize_transcript.tail_file against a concurrent       *)
(*                writer that appends, truncates and deletes               *)
(*   FollowSpec - follow_lines (glossify_transcript / stream_queue_assets) *)
(*   CleanSpec  - clean_transcript.process_stream + follow_file            *)
(*   AppendFollowSpec - follow_lines against a writer that only appends    *)
(*   CallSpec   - the glossing, matching and queue functions, one call     *)
(*   StreamSpec - stream_queue_assets.main with interrupts and restarts    *)
(*   GlossTailSpec - the loop of gloss_transcript.tail_file                *)
(*   TailAppendSpec - tail_file against a writer that only appends         *)
(*   ServerSpec - server/main.py: add_keypoint_data and the endpoints      *)
(*                sharing keypoint_queue                                   *)
(***************************************************************************)
EXTENDS Integers, Sequences, FiniteSets, TLC

VARIABLES
    \* ---- CleanerState (finalize_transcript.py) ----
    in_burst,       \* CleanerState.in_burst
    last_spoken,    \* CleanerState.last_spoken (None or text)
    last_emitted,   \* CleanerState.last_emitted (None or text)
    out,            \* lines written to the stage's output file
    line,           \* the line most recently read / handed to feed
    \* ---- the followed input file and the follower ----
    file,           \* content of the input file (characters)
    exists,         \* whether the input path exists
    pc,             \* control point of the stage
    pos,            \* read offset of the open input stream
    info,           \* number of "[info] input truncated; reopening" events
    app,            \* history: text appended since the last reopen (None after a truncation)
    fed,            \* history: lines handed on since the last (re)open
    wops,           \* history: number of operations the writer has done
    \* ---- follow_lines / follow_file ----
    buf,            \* follower's / process_stream's text buffer
    seen,           \* process_stream's set of emitted keys
    \* ---- glossing and queue building (pure functions) ----
    inp,            \* arguments of the most recent call
    res,            \* what that call returned
    \* ---- stream_queue_assets.main ----
    last_label,     \* last_label[0]: label of the clip emitted last
    assets,         \* assets returned by process_line for the current record
    \* ---- gloss_transcript.tail_file ----
    last_seen,      \* last_seen
    repeats,        \* repeats
    \* ---- server/main.py ----
    keypoint_queue, \* keypoint_queue, oldest item first
    stats,          \* stats (frame_count)
    adders,         \* each thread calling add_keypoint_data: where it is,
                    \* the frame_count it read, the calls it has made
    gets            \* items taken by the endpoints so far

vars == <<in_burst, last_spoken, last_emitted, out, line,
          file, exists, pc, pos, info, app, fed, wops, buf, seen, inp, res,
          last_label, assets, last_seen, repeats,
          keypoint_queue, stats, adders, gets>>

segVars  == <<in_burst, last_spoken, last_emitted, out>>
fileVars == <<file, exists>>

\* the threads that call add_keypoint_data
Producers == {1, 2}

(***************************************************************************)
(* Characters and text primitives                                          *)
(***************************************************************************)
None == <<"None">>

LowerSeq == <<"a","b","c","d","e","f","g","h","i","j","k","l","m",
              "n","o","p","q","r","s","t","u","v","w","x","y","z">>
UpperSeq == <<"A","B","C","D","E","F","G","H","I","J","K","L","M",
              "N","O","P","Q","R","S","T","U","V","W","X","Y","Z">>

Range(s) == {s[i] : i \in 1..Len(s)}

IsLower(c) == c \in Range(LowerSeq)
IsUpper(c) == c \in Range(UpperSeq)
IsAlpha(c) == IsLower(c) \/ IsUpper(c)

IndexIn(c, s) == CHOOSE i \in 1..Len(s) : s[i] = c

\* str.upper() / str.lower() on one character
UpperChar(c) == IF IsLower(c) THEN UpperSeq[IndexIn(c, LowerSeq)] ELSE c
LowerChar(c) == IF IsUpper(c) THEN LowerSeq[IndexIn(c, UpperSeq)] ELSE c

lower(s) == [i \in 1..Len(s) |-> LowerChar(s[i])]

Whitespace == {" ", "\t", "\n", "\r"}
\* the single character U+2026 (horizontal ellipsis)
Ellipsis == "U+2026"

EndPunct   == {".", "!", "?", Ellipsis}

Drop(s, n) == SubSeq(s, n + 1, Len(s))
Take(s, n) == SubSeq(s, 1, n)

\* index of the first occurrence of c in s at or after position i, 0 if none
FindFrom(s, c, i) ==
    LET hits == {k \in i..Len(s) : s[k] = c} IN
    IF hits = {} THEN 0 ELSE CHOOSE k \in hits : \A m \in hits : k <= m

lstrip(s) ==
    LET kept == {k \in 1..Len(s) : s[k] \notin Whitespace} IN
    IF kept = {} THEN <<>>
    ELSE Drop(s, (CHOOSE k \in kept : \A m \in kept : k <= m) - 1)

RECURSIVE rstrip(_)
rstrip(s) ==
    IF s # <<>> /\ s[Len(s)] \in Whitespace THEN rstrip(Take(s, Len(s) - 1)) ELSE s

\* str.strip()
strip(s) == rstrip(lstrip(s))

\* str.rstrip("\n")
RECURSIVE rstrip_nl(_)
rstrip_nl(s) ==
    IF s # <<>> /\ s[Len(s)] = "\n" THEN rstrip_nl(Take(s, Len(s) - 1)) ELSE s

\* " ".join(s.strip().split()): runs of whitespace become one space
RECURSIVE JoinSplit(_)
JoinSplit(s) ==
    IF s = <<>> THEN <<>>
    ELSE IF s[1] \in Whitespace
         THEN LET r == lstrip(s) IN
              IF r = <<>> THEN <<>> ELSE <<" ">> \o JoinSplit(r)
         ELSE <<s[1]>> \o JoinSplit(Tail(s))

normalize_ws(s) == JoinSplit(strip(s))

(***************************************************************************)
(* finalize_transcript.py: regular expressions and text functions          *)
(***************************************************************************)
MIN_CHARS == 8
COMMIT_ON_PUNCT == TRUE
FORCE_PERIOD == TRUE

\* TAG_LINE_RE.match(s):  ^\s*\[[^\]]+\]\s*$
TAG_LINE_RE(s) ==
    LET t == strip(s) IN
    /\ Len(t) >= 3
    /\ t[1] = "["
    /\ FindFrom(t, "]", 2) = Len(t)

\* INLINE_TAG_RE.sub("", s):  every leftmost match of \[[^\]]+\] removed
RECURSIVE INLINE_TAG_RE_sub(_)
INLINE_TAG_RE_sub(s) ==
    IF s = <<>> THEN <<>>
    ELSE IF s[1] = "["
         THEN LET j == FindFrom(s, "]", 2) IN
              IF j >= 3 THEN INLINE_TAG_RE_sub(Drop(s, j))
              ELSE <<s[1]>> \o INLINE_TAG_RE_sub(Tail(s))
         ELSE <<s[1]>> \o INLINE_TAG_RE_sub(Tail(s))

\* END_PUNCT_RE.search(s):  [.!?...]$  ($ also matches before a final newline)
END_PUNCT_RE(s) ==
    \/ s # <<>> /\ s[Len(s)] \in EndPunct
    \/ Len(s) >= 2 /\ s[Len(s)] = "\n" /\ s[Len(s) - 1] \in EndPunct

clean_text(s) == normalize_ws(INLINE_TAG_RE_sub(s))

finalize_text(s) ==
    IF s = <<>> THEN <<>>
    ELSE LET c == IF IsAlpha(s[1]) THEN <<UpperChar(s[1])>> \o Tail(s) ELSE s IN
         IF FORCE_PERIOD /\ ~END_PUNCT_RE(c) THEN c \o <<".">> ELSE c

\* Python truthiness of an Optional[str]
Truthy(t) == t # None /\ t # <<>>

(***************************************************************************)
(* CleanerState: the segmenter's state as a record, commit and feed as     *)
(* functions from state to state                                           *)
(***************************************************************************)
CleanerState ==
    [in_burst |-> FALSE, last_spoken |-> None, last_emitted |-> None, out |-> <<>>]

CurState ==
    [in_burst |-> in_burst, last_spoken |-> last_spoken,
     last_emitted |-> last_emitted, out |-> out]

commit_NoDedup(st, text) ==
    LET t == clean_text(text) IN
    IF Len(t) < MIN_CHARS THEN st
    ELSE LET f == finalize_text(t) IN
         IF f = <<>> THEN st
         ELSE [in_burst |-> FALSE, last_spoken |-> None,
               last_emitted |-> f, out |-> Append(st.out, f)]

commit_NoMinChars(st, text) ==
    LET t == clean_text(text) IN
    LET f == finalize_text(t) IN
    IF f = <<>> THEN st
    ELSE IF f = st.last_emitted THEN st
    ELSE [in_burst |-> FALSE, last_spoken |-> None,
          last_emitted |-> f, out |-> Append(st.out, f)]

commit_KeepsHeld(st, text) ==
    LET t == clean_text(text) IN
    IF Len(t) < MIN_CHARS THEN st
    ELSE LET f == finalize_text(t) IN
         IF f = <<>> THEN st
         ELSE IF f = st.last_emitted THEN st
         ELSE [in_burst |-> FALSE, last_spoken |-> st.last_spoken,
               last_emitted |-> f, out |-> Append(st.out, f)]

commit(st, text) ==
    LET t == clean_text(text) IN
    IF Len(t) < MIN_CHARS THEN st
    ELSE LET f == finalize_text(t) IN
         IF f = <<>> THEN st
         ELSE IF f = st.last_emitted THEN st
         ELSE [in_burst |-> FALSE, last_spoken |-> None,
               last_emitted |-> f, out |-> Append(st.out, f)]

feed_NoEarlyCommit(st, ln) ==
    LET s == rstrip_nl(ln) IN
    IF strip(s) = <<>> THEN st
    ELSE IF TAG_LINE_RE(s)
         THEN IF st.in_burst /\ Truthy(st.last_spoken)
              THEN commit(st, st.last_spoken)
              ELSE [st EXCEPT !.in_burst = FALSE, !.last_spoken = None]
         ELSE LET spoken == clean_text(s) IN
              IF spoken = <<>> THEN st
              ELSE [st EXCEPT !.in_burst = TRUE, !.last_spoken = spoken]

feed_KeepsFirst(st, ln) ==
    LET s == rstrip_nl(ln) IN
    IF strip(s) = <<>> THEN st
    ELSE IF TAG_LINE_RE(s)
         THEN IF st.in_burst /\ Truthy(st.last_spoken)
              THEN commit(st, st.last_spoken)
              ELSE [st EXCEPT !.in_burst = FALSE, !.last_spoken = None]
         ELSE LET spoken == clean_text(s) IN
              IF spoken = <<>> THEN st
              ELSE LET st1 == IF st.in_burst THEN st
                              ELSE [st EXCEPT !.in_burst = TRUE,
                                              !.last_spoken = spoken] IN
                   IF COMMIT_ON_PUNCT /\ END_PUNCT_RE(spoken)
                   THEN commit(st1, spoken)
                   ELSE st1

feed_EmptyEndsBurst(st, ln) ==
    LET s == rstrip_nl(ln) IN
    IF strip(s) = <<>> THEN st
    ELSE IF TAG_LINE_RE(s)
         THEN IF st.in_burst /\ Truthy(st.last_spoken)
              THEN commit(st, st.last_spoken)
              ELSE [st EXCEPT !.in_burst = FALSE, !.last_spoken = None]
         ELSE LET spoken == clean_text(s) IN
              IF spoken = <<>>
              THEN [st EXCEPT !.in_burst = FALSE, !.last_spoken = None]
              ELSE LET st1 == [st EXCEPT !.in_burst = TRUE, !.last_spoken = spoken] IN
                   IF COMMIT_ON_PUNCT /\ END_PUNCT_RE(spoken)
                   THEN commit(st1, spoken)
                   ELSE st1

feed(st, ln) ==
    LET s == rstrip_nl(ln) IN
    IF strip(s) = <<>> THEN st
    ELSE IF TAG_LINE_RE(s)
         THEN IF st.in_burst /\ Truthy(st.last_spoken)
              THEN commit(st, st.last_spoken)
              ELSE [st EXCEPT !.in_burst = FALSE, !.last_spoken = None]
         ELSE LET spoken == clean_text(s) IN
              IF spoken = <<>> THEN st
              ELSE LET st1 == [st EXCEPT !.in_burst = TRUE, !.last_spoken = spoken] IN
                   IF COMMIT_ON_PUNCT /\ END_PUNCT_RE(spoken)
                   THEN commit(st1, spoken)
                   ELSE st1

SetState(st) ==
    /\ in_burst' = st.in_burst
    /\ last_spoken' = st.last_spoken
    /\ last_emitted' = st.last_emitted
    /\ out' = st.out

(***************************************************************************)
(* SegSpec: the segmenter fed any sequence of lines                        *)
(***************************************************************************)
MaxOut == 3

L_hello     == <<"h","e","l","l","o"," ","w","o","r","l","d",".","\n">>
L_helloCase == <<"h","e","l","l","o"," ","W","o","r","l","d",".","\n">>
L_helloBare == <<" ","h","e","l","l","o"," "," ","w","o","r","l","d","\n">>
L_tag       == <<"[","x","]","\n">>
L_short     == <<"h","i","\n">>
L_shortDot  == <<"H","i",".","\n">>
L_blank     == <<" ","\n">>
L_onlyTags  == <<"[","x","]"," ","[","y","]","\n">>
L_inline    == <<"g","o","o","d"," ","[","x","]"," ","d","a","y",Ellipsis,"\n">>
L_seven     == <<"g","o"," ","h","o","m","e","\n">>
L_ask       == <<"w","h","o"," ","a","r","e"," ","y","o","u","?">>

Lines == {L_hello, L_helloCase, L_helloBare, L_tag, L_short, L_shortDot,
          L_blank, L_onlyTags, L_inline, L_seven, L_ask}

SegInit ==
    /\ in_burst = FALSE
    /\ last_spoken = None
    /\ last_emitted = None
    /\ out = <<>>
    /\ line = <<>>
    /\ file = <<>>
    /\ exists = TRUE
    /\ pc = "seg"
    /\ pos = 0
    /\ info = 0
    /\ app = None
    /\ fed = <<>>
    /\ wops = 0
    /\ buf = <<>>
    /\ seen = {}
    /\ inp = None
    /\ last_label = None
    /\ assets = <<>>
    /\ last_seen = <<>>
    /\ repeats = 0
    /\ keypoint_queue = <<>>
    /\ stats = [frame_count |-> 0]
    /\ adders = [p \in Producers |-> [pc |-> "idle", count |-> 0, calls |-> 0]]
    /\ gets = 0
    /\ res = None

\* one call state.feed(line, fout)
SegFeed ==
    /\ pc = "seg"
    /\ Len(out) < MaxOut
    /\ \E l \in Lines :
          /\ line' = l
          /\ SetState(feed(CurState, l))
    /\ UNCHANGED <<file, exists, pc, pos, info, app, fed, wops, buf, seen, inp, res,
                   last_label, assets, last_seen, repeats,
                   keypoint_queue, stats, adders, gets>>

SegNext == SegFeed

SegSpec == SegInit /\ [][SegNext]_vars

(***************************************************************************)
(* Properties of the segmenter (SegSpec)                                   *)
(***************************************************************************)
NoAdjacentEqual(o) == \A i \in 1..(Len(o) - 1) : o[i] # o[i + 1]

\* what the step that fed ln would commit: the line's cleaned text
Spoken(ln) == clean_text(rstrip_nl(ln))

IsBlankLine(ln) == strip(rstrip_nl(ln)) = <<>>
IsTagLine(ln)   == ~IsBlankLine(ln) /\ TAG_LINE_RE(rstrip_nl(ln))
IsSpokenLine(ln) == ~IsBlankLine(ln) /\ ~TAG_LINE_RE(rstrip_nl(ln)) /\ Spoken(ln) # <<>>
IsPunctLine(ln) == IsSpokenLine(ln) /\ END_PUNCT_RE(Spoken(ln))

Idle == ~in_burst /\ last_spoken = None

\* C1: the output never holds the same sentence text twice in direct
\* succession, and a step that feeds the same line as the step before it
\* writes nothing (the text is emitted at most once).
C1_NoRepeat ==
    [][/\ NoAdjacentEqual(out')
       /\ (line' = line => out' = out)]_vars

\* a punctuated, long-enough line was fed whose finalized text is the last
\* written sentence, and it was suppressed (the burst is still held)
C1_Witness ==
    /\ Len(out) >= 1
    /\ in_burst
    /\ Truthy(last_spoken)
    /\ IsPunctLine(line)
    /\ Spoken(line) = last_spoken
    /\ Len(last_spoken) >= MIN_CHARS
    /\ finalize_text(last_spoken) = out[Len(out)]

\* C2: no written sentence equals the sentence written just before it when
\* both are compared case-insensitively and whitespace-normalized.
C2_CaseInsensitiveDedup ==
    \A i \in 1..(Len(out) - 1) :
        lower(normalize_ws(out[i])) # lower(normalize_ws(out[i + 1]))

\* C3: a step that processes a tag-only line ends idle (no burst active, no
\* held text); it writes at most the finalized held text, and writes
\* nothing when no burst with non-empty held text was active.
C3_TagLineEndsIdle ==
    [][IsTagLine(line') =>
          /\ ~in_burst' /\ last_spoken' = None
          /\ IF in_burst /\ Truthy(last_spoken)
             THEN out' \in {out, Append(out, finalize_text(clean_text(last_spoken)))}
             ELSE out' = out]_vars

\* C4 (as claimed): a step that processes a spoken line whose cleaned text
\* ends in terminal punctuation writes its finalized text and ends idle.
C4_PunctLineEmits ==
    [][IsPunctLine(line') =>
          /\ out' = Append(out, finalize_text(Spoken(line')))
          /\ ~in_burst' /\ last_spoken' = None]_vars

\* C4 (amended): such a step writes the finalized text and ends idle when the
\* cleaned text has at least MIN_CHARS characters and its finalized form
\* differs from the last emitted sentence; otherwise it writes nothing and
\* the line stays held as the active burst.
C4_PunctLineEmitsUnlessDiscarded ==
    [][IsPunctLine(line') =>
          IF Len(Spoken(line')) >= MIN_CHARS
             /\ finalize_text(Spoken(line')) # last_emitted
          THEN /\ out' = Append(out, finalize_text(Spoken(line')))
               /\ last_emitted' = finalize_text(Spoken(line'))
               /\ ~in_burst' /\ last_spoken' = None
          ELSE /\ out' = out
               /\ in_burst' /\ last_spoken' = Spoken(line')]_vars

\* a punctuated line has just been written without any tag line
C4_Witness ==
    /\ IsPunctLine(line)
    /\ Len(out) >= 1
    /\ out[Len(out)] = finalize_text(Spoken(line))
    /\ Idle

\* C5: every written sentence is non-empty, ends in terminal punctuation and
\* is the finalized form of a cleaned text of at least MIN_CHARS characters
\* (counted before the period is forced): the held text or the line fed.
C5_SentenceWellFormed ==
    [][\A i \in (Len(out) + 1)..Len(out') :
          /\ out'[i] # <<>>
          /\ out'[i][Len(out'[i])] \in EndPunct
          /\ \E c \in {clean_text(last_spoken), Spoken(line')} :
                /\ c # None
                /\ Len(c) >= MIN_CHARS
                /\ out'[i] = finalize_text(c)]_vars

\* a seven-character fragment whose finalized form would have eight
\* characters was held at a tag line and not written
C5_Witness ==
    /\ IsTagLine(line)
    /\ in_burst
    /\ Truthy(last_spoken)
    /\ Len(last_spoken) = MIN_CHARS - 1
    /\ Len(finalize_text(last_spoken)) = MIN_CHARS
    /\ Len(out) >= 1

(***************************************************************************)
(* The followed input file and its writer (the external recognizer)        *)
(***************************************************************************)
MaxWrites == 3
MaxTrunc  == 1

K_punct   == <<"h","i"," ","t","h","e","r","e",".","\n">>
K_bare    == <<"g","o","o","d"," ","d","a","y","\n">>
K_tag     == <<"[","x","]","\n">>
K_partial == <<"s","o"," ">>

Chunks == {K_punct, K_bare, K_tag, K_partial}

\* fin.readline() at offset p: up to and including the next newline, or the
\* rest of the file when no newline has been written yet; "" at end of file
ReadLine(f, p) ==
    IF p >= Len(f) THEN <<>>
    ELSE LET j == FindFrom(f, "\n", p + 1) IN
         IF j = 0 THEN Drop(f, p) ELSE SubSeq(f, p + 1, j)

\* f.read() at offset p: everything from the offset to the end of the file
ReadAll(f, p) == IF p >= Len(f) THEN <<>> ELSE Drop(f, p)

RECURSIVE Flatten(_)
Flatten(ls) == IF ls = <<>> THEN <<>> ELSE Head(ls) \o Flatten(Tail(ls))

\* the writer appends a chunk of text (whole lines or part of a line)
WAppend ==
    /\ exists
    /\ wops < MaxWrites
    /\ wops' = wops + 1
    /\ \E c \in Chunks :
          /\ file' = file \o c
          /\ app' = IF app = None THEN None ELSE app \o c
    /\ UNCHANGED <<segVars, line, exists, pc, pos, info, fed, buf, seen, inp, res,
                   last_label, assets, last_seen, repeats,
                   keypoint_queue, stats, adders, gets>>

\* the file is truncated (rewritten shorter) in place
WTruncate ==
    /\ exists
    /\ wops < MaxWrites
    /\ info < MaxTrunc
    /\ wops' = wops + 1
    /\ \E n \in {0, Len(file) \div 2} :
          /\ n < Len(file)
          /\ file' = Take(file, n)
    /\ app' = None
    /\ UNCHANGED <<segVars, line, exists, pc, pos, info, fed, buf, seen, inp, res,
                   last_label, assets, last_seen, repeats,
                   keypoint_queue, stats, adders, gets>>

\* the path is removed; an already open stream keeps reading the old content
WDelete ==
    /\ exists
    /\ wops < MaxWrites
    /\ wops' = wops + 1
    /\ exists' = FALSE
    /\ UNCHANGED <<segVars, line, file, pc, pos, info, app, fed, buf, seen, inp, res,
                   last_label, assets, last_seen, repeats,
                   keypoint_queue, stats, adders, gets>>

(***************************************************************************)
(* finalize_transcript.tail_file                                           *)
(***************************************************************************)
\* lines 90-100: create the input if missing, truncate the output, fresh
\* CleanerState, open both files
TStart ==
    /\ pc = "start"
    /\ exists' = TRUE
    /\ file' = IF exists THEN file ELSE <<>>
    /\ SetState(CleanerState)
    /\ pos' = 0
    /\ fed' = <<>>
    /\ app' = None
    /\ pc' = "existing"
    /\ UNCHANGED <<line, info, wops, buf, seen, inp, res,
                   last_label, assets, last_seen, repeats,
                   keypoint_queue, stats, adders, gets>>

\* process_existing: one iteration of "for raw in fin", or its end at EOF
\* followed by pos = fin.tell()
TExisting ==
    /\ pc = "existing"
    /\ LET raw == ReadLine(file, pos) IN
       IF raw # <<>>
       THEN /\ line' = raw
            /\ pos' = pos + Len(raw)
            /\ SetState(feed(CurState, raw))
            /\ fed' = Append(fed, raw)
            /\ pc' = pc
       ELSE /\ pc' = "tail"
            /\ UNCHANGED <<segVars, line, pos, fed>>
    /\ UNCHANGED <<file, exists, info, app, wops, buf, seen, inp, res,
                   last_label, assets, last_seen, repeats,
                   keypoint_queue, stats, adders, gets>>

\* one iteration of the "while True" loop with the truncation check removed
TPoll_NoTruncCheck ==
    /\ pc = "tail"
    /\ LET ln == ReadLine(file, pos) IN
       /\ line' = ln
       /\ IF ln = <<>>
          THEN UNCHANGED <<segVars, pos, info, app, fed, pc>>
          ELSE /\ pos' = pos + Len(ln)
               /\ SetState(feed(CurState, ln))
               /\ fed' = Append(fed, ln)
               /\ UNCHANGED <<info, app, pc>>
    /\ UNCHANGED <<file, exists, wops, buf, seen, inp, res,
                   last_label, assets, last_seen, repeats,
                   keypoint_queue, stats, adders, gets>>

\* one iteration of the "while True" loop that commits the held text when
\* the stream has no new line
TPoll_CommitAtEOF ==
    /\ pc = "tail"
    /\ LET ln == ReadLine(file, pos) IN
       /\ line' = ln
       /\ IF ln = <<>>
          THEN LET size == IF exists THEN Len(file) ELSE 0 IN
               IF size < pos
               THEN IF exists
                    THEN /\ info' = info + 1
                         /\ pos' = Len(file)
                         /\ app' = <<>>
                         /\ fed' = <<>>
                         /\ UNCHANGED <<segVars, pc>>
                    ELSE /\ pc' = "FileNotFoundError"
                         /\ UNCHANGED <<segVars, pos, info, app, fed>>
               ELSE /\ SetState(IF Truthy(last_spoken)
                                THEN commit(CurState, last_spoken) ELSE CurState)
                    /\ UNCHANGED <<pos, info, app, fed, pc>>
          ELSE /\ pos' = pos + Len(ln)
               /\ SetState(feed(CurState, ln))
               /\ fed' = Append(fed, ln)
               /\ UNCHANGED <<info, app, pc>>
    /\ UNCHANGED <<file, exists, wops, buf, seen, inp, res,
                   last_label, assets, last_seen, repeats,
                   keypoint_queue, stats, adders, gets>>

\* lines 112-133: one iteration of the "while True" loop
TPoll ==
    /\ pc = "tail"
    /\ LET ln == ReadLine(file, pos) IN
       /\ line' = ln
       /\ IF ln = <<>>
          THEN \* os.stat(IN_PATH).st_size, 0 on FileNotFoundError
               LET size == IF exists THEN Len(file) ELSE 0 IN
               IF size < pos
               THEN IF exists
                    THEN \* close, reopen, seek to the end
                         /\ info' = info + 1
                         /\ pos' = Len(file)
                         /\ app' = <<>>
                         /\ fed' = <<>>
                         /\ UNCHANGED <<segVars, pc>>
                    ELSE \* open(IN_PATH, "r") raises; nothing catches it
                         /\ pc' = "FileNotFoundError"
                         /\ UNCHANGED <<segVars, pos, info, app, fed>>
               ELSE \* time.sleep(0.05)
                    UNCHANGED <<segVars, pos, info, app, fed, pc>>
          ELSE /\ pos' = pos + Len(ln)
               /\ SetState(feed(CurState, ln))
               /\ fed' = Append(fed, ln)
               /\ UNCHANGED <<info, app, pc>>
    /\ UNCHANGED <<file, exists, wops, buf, seen, inp, res,
                   last_label, assets, last_seen, repeats,
                   keypoint_queue, stats, adders, gets>>

\* the stage is stopped (ctrl-c, kill, or after its crash) and run again
TRestart ==
    /\ pc \in {"existing", "tail", "FileNotFoundError"}
    /\ pc' = "start"
    /\ UNCHANGED <<segVars, line, file, exists, pos, info, app, fed, wops, buf, seen, inp, res,
                   last_label, assets, last_seen, repeats,
                   keypoint_queue, stats, adders, gets>>

TailInit ==
    /\ in_burst = FALSE
    /\ last_spoken = None
    /\ last_emitted = None
    /\ out = <<>>
    /\ line = <<>>
    /\ exists \in BOOLEAN
    /\ file \in (IF exists THEN {<<>>, K_bare} ELSE {<<>>})
    /\ pc = "start"
    /\ pos = 0
    /\ info = 0
    /\ app = None
    /\ fed = <<>>
    /\ wops = 0
    /\ buf = <<>>
    /\ seen = {}
    /\ inp = None
    /\ last_label = None
    /\ assets = <<>>
    /\ last_seen = <<>>
    /\ repeats = 0
    /\ keypoint_queue = <<>>
    /\ stats = [frame_count |-> 0]
    /\ adders = [p \in Producers |-> [pc |-> "idle", count |-> 0, calls |-> 0]]
    /\ gets = 0
    /\ res = None

TailNext ==
    \/ WAppend
    \/ WTruncate
    \/ WDelete
    \/ TStart
    \/ TExisting
    \/ TPoll
    \/ TRestart

TailSpec == TailInit /\ [][TailNext]_vars

(***************************************************************************)
(* Properties of tail_file (TailSpec)                                      *)
(***************************************************************************)
\* C6: the output grows only in a step of process_existing or of the tail
\* loop that handed the segmenter a tag-only line or a spoken line ending in
\* terminal punctuation, and then by exactly one sentence; no other step
\* (a poll that finds no data, end of input, a truncation, a restart, a
\* writer step) commits the held text.
C6_EmitOnlyAtBoundary ==
    [][(out' # out /\ out' # <<>>) =>
          /\ pc \in {"existing", "tail"}
          /\ pos' > pos
          /\ IsTagLine(line') \/ IsPunctLine(line')
          /\ Len(out') = Len(out) + 1
          /\ SubSeq(out', 1, Len(out)) = out]_vars

\* the follower has read everything, polled again and found nothing, and
\* the unpunctuated held line is still held and unwritten
C6_Witness ==
    /\ pc = "tail"
    /\ pos = Len(file)
    /\ line = <<>>
    /\ in_burst
    /\ Truthy(last_spoken)
    /\ ~END_PUNCT_RE(last_spoken)
    /\ Len(last_spoken) >= MIN_CHARS
    /\ \A i \in 1..Len(out) : out[i] # finalize_text(last_spoken)

TailAppendNext ==
    \/ WAppend
    \/ TStart
    \/ TExisting
    \/ TPoll

TailAppendSpec == TailInit /\ [][TailAppendNext]_vars

\* C39: with a follower that keeps running and an input that is only
\* appended to, every complete line of the transcript that is spoken text
\* ending in terminal punctuation with at least MIN_CHARS cleaned characters
\* is eventually written, and sentences are written in the order of their
\* lines.  A poll that finds no data writes nothing, so "eventually" is the
\* moment the follower has read the whole file: at that moment the sentence
\* of every such line is in the clean transcript, and at every moment any
\* two written sentences are the sentences of two lines of the transcript
\* in that order.
C39_CompleteLinesWritten ==
    LET LineAt(p) == IF p = 0 \/ file[p] = "\n" THEN ReadLine(file, p) ELSE <<>>
        Complete(p) == LineAt(p) # <<>> /\ LineAt(p)[Len(LineAt(p))] = "\n"
        Yields(p, t) == Complete(p) /\ finalize_text(Spoken(LineAt(p))) = t
    IN
    /\ (pc = "tail" /\ pos = Len(file)) =>
          \A p \in 0..Len(file) :
              (/\ Complete(p)
               /\ IsPunctLine(LineAt(p))
               /\ Len(Spoken(LineAt(p))) >= MIN_CHARS)
              => \E i \in 1..Len(out) : Yields(p, out[i])
    /\ \A i, j \in 1..Len(out) :
          i < j => \E p, q \in 0..Len(file) :
                      p < q /\ Yields(p, out[i]) /\ Yields(q, out[j])

(***************************************************************************)
(* follow_lines (glossify_transcript.py and stream_queue_assets.py hold    *)
(* the same generator)                                                     *)
(***************************************************************************)
\* str.splitlines(): the lines without their newline; a last line without
\* newline is a line too; no empty last line
RECURSIVE splitlines(_)
splitlines(s) ==
    IF s = <<>> THEN <<>>
    ELSE LET j == FindFrom(s, "\n", 1) IN
         IF j = 0 THEN <<s>>
         ELSE <<Take(s, j - 1)>> \o splitlines(Drop(s, j))

\* while "\n" in buf: line, buf = buf.split("\n", 1); yield line
RECURSIVE SplitComplete(_)
SplitComplete(b) ==
    LET j == FindFrom(b, "\n", 1) IN
    IF j = 0 THEN [lines |-> <<>>, buf |-> b]
    ELSE LET r == SplitComplete(Drop(b, j)) IN
         [lines |-> <<Take(b, j - 1)>> \o r.lines, buf |-> r.buf]

\* create the file if missing, open it, read and yield what it holds
FStart ==
    /\ pc = "start"
    /\ exists' = TRUE
    /\ file' = IF exists THEN file ELSE <<>>
    /\ fed' = fed \o splitlines(file')
    /\ pos' = Len(file')
    /\ buf' = <<>>
    /\ pc' = "ftail"
    /\ UNCHANGED <<segVars, line, info, app, wops, seen, inp, res,
                   last_label, assets, last_seen, repeats,
                   keypoint_queue, stats, adders, gets>>

\* one iteration of the tail loop: chunk = f.read()
FRead ==
    /\ pc = "ftail"
    /\ LET chunk == ReadAll(file, pos) IN
       IF chunk # <<>>
       THEN LET r == SplitComplete(buf \o chunk) IN
            /\ fed' = fed \o r.lines
            /\ buf' = r.buf
            /\ pos' = Len(file)
            /\ pc' = pc
       ELSE \* time.sleep(poll)
            /\ pc' = "fsleep"
            /\ UNCHANGED <<fed, buf, pos>>
    /\ UNCHANGED <<segVars, line, file, exists, info, app, wops, seen, inp, res,
                   last_label, assets, last_seen, repeats,
                   keypoint_queue, stats, adders, gets>>

\* time.sleep(poll) returns
FWake ==
    /\ pc = "fsleep"
    /\ pc' = "ftail"
    /\ UNCHANGED <<segVars, line, file, exists, pos, info, app, fed, wops, buf, seen, inp, res,
                   last_label, assets, last_seen, repeats,
                   keypoint_queue, stats, adders, gets>>

FollowInit ==
    /\ in_burst = FALSE
    /\ last_spoken = None
    /\ last_emitted = None
    /\ out = <<>>
    /\ line = <<>>
    /\ exists \in BOOLEAN
    /\ file \in (IF exists THEN {<<>>, K_bare, K_bare \o K_tag} ELSE {<<>>})
    /\ pc = "start"
    /\ pos = 0
    /\ info = 0
    /\ app = None
    /\ fed = <<>>
    /\ wops = 0
    /\ buf = <<>>
    /\ seen = {}
    /\ inp = None
    /\ last_label = None
    /\ assets = <<>>
    /\ last_seen = <<>>
    /\ repeats = 0
    /\ keypoint_queue = <<>>
    /\ stats = [frame_count |-> 0]
    /\ adders = [p \in Producers |-> [pc |-> "idle", count |-> 0, calls |-> 0]]
    /\ gets = 0
    /\ res = None

FollowNext ==
    \/ WAppend
    \/ WTruncate
    \/ WDelete
    \/ FStart
    \/ FRead
    \/ FWake

FollowSpec == FollowInit /\ [][FollowNext]_vars

\* the generator's loop never stops polling
FairFollowSpec ==
    FollowSpec /\ WF_vars(FStart) /\ WF_vars(FRead) /\ WF_vars(FWake)

\* C8: a follower whose read finds the file shorter than its read offset
\* reopens or repositions instead of sleeping at the stale offset: whenever
\* it goes to sleep for lack of data, its offset lies within the file, so
\* that whatever is appended next is read by the following poll.
C8_FollowerRecovers ==
    [][(pc = "ftail" /\ pc' = "fsleep") => pos' <= Len(file')]_vars

(***************************************************************************)
(* clean_transcript.py: process_stream over follow_file                    *)
(***************************************************************************)
BufferLimit == 10000
BufferKeep  == 5000

\* re.sub(" ", s) for a pattern  open [^close]* close
\* (the leftmost match starts at the first open that a close follows)
RECURSIVE SubAside(_, _, _)
SubAside(s, open, close) ==
    LET o == FindFrom(s, open, 1)
        c == IF o = 0 THEN 0 ELSE FindFrom(s, close, o + 1) IN
    IF c = 0 THEN s
    ELSE Take(s, o - 1) \o <<" ">> \o SubAside(Drop(s, c), open, close)

\* SPACE_RE.sub(" ", s): every run of whitespace becomes one space
RECURSIVE SPACE_RE_sub(_)
SPACE_RE_sub(s) ==
    IF s = <<>> THEN <<>>
    ELSE IF s[1] \in Whitespace
         THEN <<" ">> \o SPACE_RE_sub(lstrip(s))
         ELSE <<s[1]>> \o SPACE_RE_sub(Tail(s))

\* clean_transcript.clean_text
cleaner_clean_text(s) ==
    strip(SPACE_RE_sub(SubAside(SubAside(s, "(", ")"), "[", "]")))

\* END_RE.search(buffer): index of the first '.', '!' or '?', 0 if none
END_RE_search(b, i) ==
    LET hits == {k \in i..Len(b) : b[k] \in {".", "!", "?"}} IN
    IF hits = {} THEN 0 ELSE CHOOSE k \in hits : \A m \in hits : k <= m

\* flush_sentence remembering sentences as written, not lower-cased
flush_sentence_CaseSensitive(st, raw_sentence) ==
    LET t == cleaner_clean_text(raw_sentence) IN
    IF t = <<>> THEN st
    ELSE IF t \in st.seen THEN st
    ELSE [st EXCEPT !.out = Append(st.out, t), !.seen = st.seen \cup {t}]

\* flush_sentence on the record [out, seen]
flush_sentence(st, raw_sentence) ==
    LET t == cleaner_clean_text(raw_sentence)
        key == lower(t) IN
    IF t = <<>> THEN st
    ELSE IF key \in st.seen THEN st
    ELSE [st EXCEPT !.out = Append(st.out, t), !.seen = st.seen \cup {key}]

\* drain_complete_sentences on the record [buffer, out, seen]
RECURSIVE drain_loop(_)
drain_loop(st) ==
    LET end_idx == END_RE_search(st.buffer, 1) IN
    IF end_idx = 0 THEN st
    ELSE LET sent == Take(st.buffer, end_idx)
             f == flush_sentence([out |-> st.out, seen |-> st.seen], sent) IN
         drain_loop([buffer |-> Drop(st.buffer, end_idx),
                     out |-> f.out, seen |-> f.seen])

drain_complete_sentences(st) ==
    LET r == drain_loop(st) IN
    IF Len(r.buffer) > BufferLimit
    THEN [r EXCEPT !.buffer = Drop(r.buffer, Len(r.buffer) - BufferKeep)]
    ELSE r

Drained(b) ==
    LET r == drain_complete_sentences([buffer |-> b, out |-> out, seen |-> seen]) IN
    /\ buf' = r.buffer
    /\ out' = r.out
    /\ seen' = r.seen

\* lines 42-47 and 80: read the whole source once, drain it
PStart ==
    /\ pc = "start"
    /\ IF ~exists
       THEN \* open(source_path, "r") raises; nothing catches it
            /\ pc' = "FileNotFoundError"
            /\ UNCHANGED <<out, buf, seen, fed>>
       ELSE /\ Drained(file)
            /\ fed' = <<file>>
            /\ pc' = "follow_open"
    /\ UNCHANGED <<in_burst, last_spoken, last_emitted, line, file, exists,
                   pos, info, app, wops, inp, res,
                   last_label, assets, last_seen, repeats,
                   keypoint_queue, stats, adders, gets>>

\* follow_file lines 27-30: touch the file, open it, seek to its end
POpen ==
    /\ pc = "follow_open"
    /\ exists' = TRUE
    /\ file' = IF exists THEN file ELSE <<>>
    /\ pos' = Len(file')
    /\ pc' = "follow"
    /\ UNCHANGED <<segVars, line, info, app, fed, wops, buf, seen, inp, res,
                   last_label, assets, last_seen, repeats,
                   keypoint_queue, stats, adders, gets>>

\* follow_file lines 31-38 with the loop body of process_stream (85-86)
PRead ==
    /\ pc = "follow"
    /\ LET chunk == ReadAll(file, pos) IN
       IF chunk # <<>>
       THEN /\ Drained(buf \o chunk)
            /\ fed' = Append(fed, chunk)
            /\ pos' = Len(file)
       ELSE \* time.sleep(poll)
            UNCHANGED <<out, buf, seen, fed, pos>>
    /\ UNCHANGED <<in_burst, last_spoken, last_emitted, line, file, exists,
                   pc, info, app, wops, inp, res,
                   last_label, assets, last_seen, repeats,
                   keypoint_queue, stats, adders, gets>>

CleanInit ==
    /\ in_burst = FALSE
    /\ last_spoken = None
    /\ last_emitted = None
    /\ out = <<>>
    /\ line = <<>>
    /\ exists \in BOOLEAN
    /\ file \in (IF exists
                 THEN {<<>>, K_bare, K_punct \o K_partial,
                       \* "Hi There.[a]."
                       <<"H","i"," ","T","h","e","r","e",".","[","a","]",".">>,
                       \* "x" and a run of spaces just over the limit
                       [i \in 1..(BufferLimit + 1) |->
                           IF i = 1 THEN "x" ELSE " "]}
                 ELSE {<<>>})
    /\ pc = "start"
    /\ pos = 0
    /\ info = 0
    /\ app = None
    /\ fed = <<>>
    /\ wops = 0
    /\ buf = <<>>
    /\ seen = {}
    /\ inp = None
    /\ last_label = None
    /\ assets = <<>>
    /\ last_seen = <<>>
    /\ repeats = 0
    /\ keypoint_queue = <<>>
    /\ stats = [frame_count |-> 0]
    /\ adders = [p \in Producers |-> [pc |-> "idle", count |-> 0, calls |-> 0]]
    /\ gets = 0
    /\ res = None

CleanNext ==
    \/ WAppend
    \/ PStart
    \/ POpen
    \/ PRead

CleanSpec == CleanInit /\ [][CleanNext]_vars

\* C9: a stage never ends in FileNotFoundError: once started on a path that
\* is missing, the path exists (created empty) and the stage goes on.
C9_MissingInputNotAnError ==
    /\ pc # "FileNotFoundError"
    /\ pc # "start" => exists

\* C10: in the replay-then-tail configuration the text that has entered the
\* segmentation buffer (the initial read followed by every chunk handed
\* over by follow_file) is exactly the prefix of the source file up to the
\* follower's offset: no character is skipped and none is read twice.
C10_EveryCharacterOnce ==
    pc = "follow" => Flatten(fed) = Take(file, pos)

\* C37: within one run of process_stream no two written lines are equal
\* after lower-casing, and every written line is non-empty and ends with
\* '.', '!' or '?', whatever chunks were appended.
C37_NoDuplicateSentences ==
    /\ \A i, j \in 1..Len(out) : i # j => lower(out[i]) # lower(out[j])
    /\ \A i \in 1..Len(out) :
          /\ out[i] # <<>>
          /\ out[i][Len(out[i])] \in {".", "!", "?"}

\* the replayed "Hi There." was written, a later chunk "hi there.\n" was
\* drained and added no second line
C37_Witness ==
    /\ pc = "follow"
    /\ Len(fed) >= 2
    /\ fed[2] = K_punct
    /\ Len(out) >= 1
    /\ out[1] = <<"H","i"," ","T","h","e","r","e",".">>
    /\ \A i \in 1..Len(out) : out[i] # Take(K_punct, Len(K_punct) - 1)

\* C38: what process_stream has written depends only on the concatenation
\* of the text handed to it, not on the chunks it arrived in: at every poll
\* the output equals that of one drain over the whole text read so far,
\* also when an unterminated run is longer than the trimming threshold.
C38_ChunkingIrrelevant ==
    pc = "follow" =>
        out = drain_complete_sentences(
                  [buffer |-> Flatten(fed), out |-> <<>>, seen |-> {}]).out

(***************************************************************************)
(* follow_lines against a writer that only appends                         *)
(***************************************************************************)
AppendFollowNext ==
    \/ WAppend
    \/ FStart
    \/ FRead
    \/ FWake

AppendFollowSpec == FollowInit /\ [][AppendFollowNext]_vars

\* C11: the lines handed on by the follower are, in order and once each,
\* the first complete (newline-terminated) lines of the input file; text
\* whose newline has not been written yet is never handed on as a line.
C11_WholeLinesOnceInOrder ==
    pc \in {"ftail", "fsleep"} =>
        LET whole == SplitComplete(file).lines IN
        /\ Len(fed) <= Len(whole)
        /\ fed = SubSeq(whole, 1, Len(fed))

(***************************************************************************)
(* glossify_transcript.py: the Glossifier (fallback and tagged backend)    *)
(* and the QueueBuilder map_gloss_to_queue                                 *)
(***************************************************************************)
IsDigit(c) == c \in {"0", "1", "2", "3", "4", "5", "6", "7", "8", "9"}

upper(s) == [i \in 1..Len(s) |-> UpperChar(s[i])]

\* WORD_RE = [A-Za-z0-9']+
IsWordChar(c) == IsAlpha(c) \/ IsDigit(c) \/ c = "'"

\* WORD_RE.findall(text): the maximal runs of word characters
RECURSIVE WORD_RE_findall(_)
WORD_RE_findall(s) ==
    IF s = <<>> THEN <<>>
    ELSE LET n == Len(s)
             r == WORD_RE_findall(Take(s, n - 1)) IN
         IF ~IsWordChar(s[n]) THEN r
         ELSE IF n > 1 /\ IsWordChar(s[n - 1])
              THEN [r EXCEPT ![Len(r)] = Append(@, s[n])]
              ELSE Append(r, <<s[n]>>)

\* tok.lower(), then APOSTROPHE_RE.sub("'", tok): the characters U+2019 and
\* U+0060 become an apostrophe
normalize_token(tok) ==
    LET t == lower(tok) IN
    [i \in 1..Len(t) |-> IF t[i] \in {"U+2019", "U+0060"} THEN "'" ELSE t[i]]

endswith(s, suf) ==
    Len(s) >= Len(suf) /\ SubSeq(s, Len(s) - Len(suf) + 1, Len(s)) = suf

CUSTOM_MAP ==
    (<<"i","'","m">> :> <<"I">>) @@
    (<<"i","m">> :> <<"I">>) @@
    (<<"i">> :> <<"I">>) @@
    (<<"m","e">> :> <<"I">>) @@
    (<<"m","y">> :> <<"M","Y">>) @@
    (<<"m","i","n","e">> :> <<"M","Y">>) @@
    (<<"y","o","u">> :> <<"Y","O","U">>) @@
    (<<"y","o","u","r">> :> <<"Y","O","U","R">>) @@
    (<<"y","o","u","r","s">> :> <<"Y","O","U","R">>) @@
    (<<"h","e">> :> <<"H","E">>) @@
    (<<"s","h","e">> :> <<"S","H","E">>) @@
    (<<"i","t">> :> <<"I","T">>) @@
    (<<"w","e">> :> <<"W","E">>) @@
    (<<"t","h","e","y">> :> <<"T","H","E","Y">>) @@
    (<<"a","m">> :> <<"B","E">>) @@
    (<<"i","s">> :> <<"B","E">>) @@
    (<<"a","r","e">> :> <<"B","E">>) @@
    (<<"w","a","s">> :> <<"B","E">>) @@
    (<<"w","e","r","e">> :> <<"B","E">>) @@
    (<<"h","e","l","l","o">> :> <<"H","E","L","L","O">>) @@
    (<<"h","i">> :> <<"H","I">>) @@
    (<<"h","o","w">> :> <<"H","O","W">>) @@
    (<<"g","o","o","d">> :> <<"G","O","O","D">>) @@
    (<<"m","o","r","n","i","n","g">> :> <<"M","O","R","N","I","N","G">>) @@
    (<<"a","f","t","e","r","n","o","o","n">> :> <<"A","F","T","E","R","N","O","O","N">>) @@
    (<<"e","v","e","n","i","n","g">> :> <<"E","V","E","N","I","N","G">>) @@
    (<<"d","o">> :> <<"D","O">>) @@
    (<<"d","o","i","n","g">> :> <<"D","O">>) @@
    (<<"t","o","d","a","y">> :> <<"T","O","D","A","Y">>) @@
    (<<"w","h","a","t">> :> <<"W","H","A","T">>) @@
    (<<"w","h","y">> :> <<"W","H","Y">>) @@
    (<<"w","h","e","r","e">> :> <<"W","H","E","R","E">>) @@
    (<<"w","h","e","n">> :> <<"W","H","E","N">>) @@
    (<<"w","h","i","c","h">> :> <<"W","H","I","C","H">>) @@
    (<<"p","l","e","a","s","e">> :> <<"P","L","E","A","S","E">>) @@
    (<<"t","h","a","n","k","s">> :> <<"T","H","A","N","K","-","Y","O","U">>) @@
    (<<"t","h","a","n","k">> :> <<"T","H","A","N","K","-","Y","O","U">>) @@
    (<<"y","e","s">> :> <<"Y","E","S">>) @@
    (<<"n","o">> :> <<"N","O">>)

KEEP_POS == {"NOUN", "PROPN", "VERB", "AUX", "ADJ", "ADV", "INTJ", "PRON", "NUM"}

RECURSIVE StripSuffix_ShortestFirst(_, _)
StripSuffix_ShortestFirst(tok, k) ==
    LET sufs == <<<<"s">>, <<"e","s">>, <<"e","d">>, <<"i","n","g">>>> IN
    IF k > Len(sufs) THEN tok
    ELSE IF endswith(tok, sufs[k]) /\ Len(tok) > Len(sufs[k]) + 1
         THEN Take(tok, Len(tok) - Len(sufs[k]))
         ELSE StripSuffix_ShortestFirst(tok, k + 1)

\* the suffix loop of basic_lemma, from the k-th suffix on
RECURSIVE StripSuffix(_, _)
StripSuffix(tok, k) ==
    LET sufs == <<<<"i","n","g">>, <<"e","d">>, <<"e","s">>, <<"s">>>> IN
    IF k > Len(sufs) THEN tok
    ELSE IF endswith(tok, sufs[k]) /\ Len(tok) > Len(sufs[k]) + 1
         THEN Take(tok, Len(tok) - Len(sufs[k]))
         ELSE StripSuffix(tok, k + 1)

basic_lemma(tok) ==
    LET t == IF endswith(tok, <<"'","s">>) THEN Take(tok, Len(tok) - 2) ELSE tok IN
    StripSuffix(t, 1)

\* the stop-word-ish filter of sent_to_gloss_basic
DROP ==
    {<<"T","H","E">>,
     <<"A">>,
     <<"A","N">>,
     <<"O","F">>,
     <<"T","O">>,
     <<"I","N">>,
     <<"O","N">>,
     <<"A","T">>,
     <<"F","O","R">>,
     <<"A","N","D">>,
     <<"O","R">>,
     <<"B","U","T">>,
     <<"W","I","T","H">>,
     <<"B","E">>}

\* "compress duplicates in a row"
RECURSIVE dedup(_)
dedup(gs) ==
    IF Len(gs) <= 1 THEN gs
    ELSE LET r == dedup(Take(gs, Len(gs) - 1)) IN
         IF r[Len(r)] # gs[Len(gs)] THEN Append(r, gs[Len(gs)]) ELSE r

sent_to_gloss_basic(text) ==
    LET found == WORD_RE_findall(text)
        toks == [i \in 1..Len(found) |-> normalize_token(found[i])]
        glosses == [i \in 1..Len(toks) |->
                       IF toks[i] \in DOMAIN CUSTOM_MAP THEN CUSTOM_MAP[toks[i]]
                       ELSE upper(basic_lemma(toks[i]))] IN
    dedup(SelectSeq(glosses, LAMBDA g : g \notin DROP))

\* sent_to_gloss_spacy(nlp, text) with doc = nlp(text); a token of doc has
\* text, pos_, lemma_ ("" when the pipeline has no tagger or lemmatizer)
\* and is_space
sent_to_gloss_spacy(doc) ==
    LET gloss(tok) ==
            LET s == normalize_token(tok.text)
                pos_ok == IF tok.pos_ # "" THEN tok.pos_ \in KEEP_POS ELSE TRUE
                lemma0 == IF tok.lemma_ # <<>> THEN lower(tok.lemma_) ELSE s
                lemma == IF lemma0 \in DOMAIN CUSTOM_MAP
                         THEN CUSTOM_MAP[lemma0] ELSE upper(lemma0) IN
            IF tok.is_space THEN <<>>
            ELSE IF s \in DOMAIN CUSTOM_MAP THEN <<CUSTOM_MAP[s]>>
            ELSE IF ~pos_ok THEN <<>>
            ELSE <<upper(lemma)>> IN
    dedup(Flatten([i \in 1..Len(doc) |-> gloss(doc[i])]))

Max(a, b) == IF a >= b THEN a ELSE b

\* Python's round(num / den) for num >= 0, den > 0: ties go to the even integer
RoundHalfEven(num, den) ==
    LET q == num \div den
        r == num % den IN
    IF 2 * r < den THEN q
    ELSE IF 2 * r > den THEN q + 1
    ELSE IF q % 2 = 0 THEN q ELSE q + 1

\* dict.get(k, default); a dict is a function, the empty dict is <<>>
Get(e, k, default) == IF k \in DOMAIN e THEN e[k] ELSE default

\* a missing entry and an empty entry are both falsy
NoEntry == <<>>

\* entry lookup of map_gloss_to_queue: lower-cased key, then the gloss as
\* written, then the lower-cased key again
lookup(lex, g) ==
    LET entry == Get(lex, lower(g), NoEntry) IN
    IF entry # NoEntry THEN entry
    ELSE IF Get(lex, g, NoEntry) # NoEntry THEN lex[g]
    ELSE Get(lex, lower(g), NoEntry)

\* entry.get("dur_ms", 1000)
DefaultDurMs == 1000

TWEEN_LABEL == <<"_","T","W","E","E","N">>

\* rates are carried in hundredths: rate100 = 100 * rate
map_gloss_to_queue(gloss, lex, tween_ms, rate100) ==
    LET items(i) ==
            LET g == gloss[i]
                entry == lookup(lex, g)
                dur == RoundHalfEven(Get(entry, "dur_ms", DefaultDurMs) * 100,
                                     Max(rate100, 1))
                clip == [label |-> Get(entry, "label", g), type |-> "clip",
                         asset |-> Get(entry, "asset", None), dur_ms |-> dur]
                tw == IF tween_ms # 0 /\ i < Len(gloss)
                      THEN <<[label |-> TWEEN_LABEL, type |-> "meta",
                              dur_ms |-> tween_ms]>>
                      ELSE <<>> IN
            IF entry # NoEntry THEN <<clip>> \o tw ELSE <<>> IN
    Flatten([i \in 1..Len(gloss) |-> items(i)])

(***************************************************************************)
(* make_sign_queue.py: the LexicalMatcher and its queue assembly           *)
(***************************************************************************)
TWEEN_MS == 100
\* SPEED_FACTOR = 1.0, carried in hundredths
SPEED_FACTOR100 == 100
DROP_STOPWORDS == TRUE
STOPWORDS ==
    {<<"t","h","e">>,
     <<"a">>,
     <<"a","n">>,
     <<"i","s">>,
     <<"a","m">>,
     <<"a","r","e">>,
     <<"t","o">>,
     <<"o","f">>,
     <<"i","n">>,
     <<"o","n">>,
     <<"f","o","r">>,
     <<"a","n","d">>,
     <<"o","r">>,
     <<"b","u","t">>,
     <<"b","e">>,
     <<"w","a","s">>,
     <<"w","e","r","e">>,
     <<"d","o">>,
     <<"d","o","e","s">>,
     <<"d","i","d">>}

\* s.lower().strip(); ALNUM_SP.sub(" ", s), i.e. [^a-z0-9\s'] becomes a
\* space; WS_RE.sub(" ", s) and strip(): whitespace runs collapse to one
\* space and the ends are trimmed
norm_text(s) ==
    LET t == strip(lower(s))
        kept(c) == IsLower(c) \/ IsDigit(c) \/ c \in Whitespace \/ c = "'" IN
    normalize_ws([i \in 1..Len(t) |-> IF kept(t[i]) THEN t[i] ELSE " "])

\* str.split(): the maximal runs of non-whitespace characters
RECURSIVE split(_)
split(s) ==
    IF s = <<>> THEN <<>>
    ELSE LET n == Len(s)
             r == split(Take(s, n - 1)) IN
         IF s[n] \in Whitespace THEN r
         ELSE IF n > 1 /\ s[n - 1] \notin Whitespace
              THEN [r EXCEPT ![Len(r)] = Append(@, s[n])]
              ELSE Append(r, <<s[n]>>)

\* " ".join(ws)
RECURSIVE JoinWords(_)
JoinWords(ws) ==
    IF ws = <<>> THEN <<>>
    ELSE IF Len(ws) = 1 THEN ws[1]
    ELSE ws[1] \o <<" ">> \o JoinWords(Tail(ws))

scale_ms(ms) ==
    IF SPEED_FACTOR100 <= 0 THEN ms
    ELSE Max(1, RoundHalfEven(ms * 100, SPEED_FACTOR100))

\* entry.get("dur_ms", 800)
DefaultClipMs == 800

make_clip(entry) ==
    [label |-> entry.label, type |-> "clip", asset |-> entry.asset,
     dur_ms |-> scale_ms(Get(entry, "dur_ms", DefaultClipMs))]

tween == [label |-> TWEEN_LABEL, type |-> "meta", dur_ms |-> TWEEN_MS]

\* any(used[i:k] for k in range(i, j)): the elements tested are the slices
\* used[i:k] themselves, and a list is true exactly when it is not empty
AnySliceTrue(used, i, j) ==
    \E k \in i..(j - 1) : SubSeq(used, i + 1, k) # <<>>

\* " ".join(tokens[i:j])
Phrase(tokens, i, j) == JoinWords(SubSeq(tokens, i + 1, j))

\* the while loop of greedy_phrase_first; i counts from 0 as in the source
RECURSIVE phrase_loop(_, _, _, _, _)
phrase_loop(tokens, phrases_map, i, used, matches) ==
    LET n == Len(tokens)
        max_len == IF 6 <= n THEN 6 ELSE n
        fits == {L \in 2..max_len :
                    /\ i + L <= n
                    /\ ~AnySliceTrue(used, i, i + L)
                    /\ Phrase(tokens, i, i + L) \in DOMAIN phrases_map} IN
    IF i >= n THEN [out |-> matches, used |-> used]
    ELSE IF used[i + 1] THEN phrase_loop(tokens, phrases_map, i + 1, used, matches)
    ELSE IF fits = {} THEN phrase_loop(tokens, phrases_map, i + 1, used, matches)
    ELSE LET L == CHOOSE x \in fits : \A y \in fits : y <= x
             j == i + L IN
         phrase_loop(tokens, phrases_map, j,
                     [k \in 1..n |-> IF k \in (i + 1)..j THEN TRUE ELSE used[k]],
                     Append(matches, [kind |-> "clip",
                                      entry |-> phrases_map[Phrase(tokens, i, j)],
                                      i |-> i, j |-> j]))

greedy_phrase_first(tokens, phrases_map) ==
    phrase_loop(tokens, phrases_map, 0, [k \in 1..Len(tokens) |-> FALSE], <<>>)

words_on_remaining(tokens, used, words_map) ==
    LET match(i) ==
            LET tok == tokens[i + 1] IN
            IF used[i + 1] THEN <<>>
            ELSE IF DROP_STOPWORDS /\ tok \in STOPWORDS THEN <<>>
            ELSE IF tok \in DOMAIN words_map
            THEN <<[kind |-> "clip", entry |-> words_map[tok],
                    i |-> i, j |-> i + 1]>>
            ELSE <<[kind |-> "unknown", tok |-> tok, i |-> i, j |-> i + 1]>> IN
    Flatten([k \in 1..Len(tokens) |-> match(k - 1)])

sorted_AsFound(ms) == ms

\* sorted(matches, key=lambda m: m[2]): stable, by start index
sorted_by_start(ms) ==
    LET before(l, k) == ms[l].i < ms[k].i \/ (ms[l].i = ms[k].i /\ l < k)
        rank(k) == 1 + Cardinality({l \in 1..Len(ms) : before(l, k)}) IN
    [p \in 1..Len(ms) |-> ms[CHOOSE k \in 1..Len(ms) : rank(k) = p]]

\* to_queue of make_sign_queue.py; idx counts from 0 as in the source
to_queue(matches0, fingerspell_entry) ==
    LET matches == sorted_by_start(matches0)
        tw(idx) == IF idx # Len(matches) - 1 THEN <<tween>> ELSE <<>>
        items(idx) ==
            LET m == matches[idx + 1] IN
            IF m.kind = "clip" THEN <<make_clip(m.entry)>> \o tw(idx)
            ELSE IF fingerspell_entry # NoEntry
            THEN <<make_clip(fingerspell_entry)>> \o tw(idx)
            ELSE <<>>
        glosses(idx) ==
            LET m == matches[idx + 1] IN
            IF m.kind = "clip" THEN <<m.entry.label>>
            ELSE IF fingerspell_entry # NoEntry
            THEN <<fingerspell_entry.label \o <<"(">> \o m.tok \o <<")">>>>
            ELSE <<>> IN
    [queue |-> Flatten([k \in 1..Len(matches) |-> items(k - 1)]),
     gloss |-> Flatten([k \in 1..Len(matches) |-> glosses(k - 1)])]

\* process_line returning None
NoRecord == [returned |-> "None"]

process_line(ln, phrases_map, words_map, fingerspell_entry) ==
    LET original == strip(ln)
        text == norm_text(original)
        tokens == split(text)
        ph == greedy_phrase_first(tokens, phrases_map)
        word_matches == words_on_remaining(tokens, ph.used, words_map)
        qg == to_queue(ph.out \o word_matches, fingerspell_entry) IN
    IF original = <<>> THEN NoRecord
    ELSE IF text = <<>> THEN NoRecord
    ELSE IF qg.queue = <<>> THEN NoRecord
    ELSE [input |-> original, gloss |-> qg.gloss, queue |-> qg.queue]

(***************************************************************************)
(* gloss_transcript.py: to_queue                                           *)
(***************************************************************************)
\* int(FING.get("per_char_ms", 180))
DefaultPerCharMs == 180
\* int(entry.get("dur_ms", 600))
DefaultGlossMs == 600

\* to_queue(gloss_tokens) of gloss_transcript.py, LEX and FING being the
\* module's globals; its TWEEN_MS is 100 as well
gt_to_queue(LEX, FING, gloss_tokens) ==
    LET letters(g) == Len(SelectSeq(g, IsUpper))
        items(g) ==
            IF g \notin DOMAIN LEX
            THEN IF FING = NoEntry THEN <<>>
                 ELSE <<[label |-> <<"S","P","E","L","L","(">> \o g \o <<")">>, type |-> FING.type,
                         asset |-> FING.asset,
                         dur_ms |-> letters(g)
                                    * Get(FING, "per_char_ms", DefaultPerCharMs)],
                        tween>>
            ELSE <<[label |-> g, type |-> LEX[g].type, asset |-> LEX[g].asset,
                    dur_ms |-> Get(LEX[g], "dur_ms", DefaultGlossMs)],
                   tween>>
        q == Flatten([k \in 1..Len(gloss_tokens) |-> items(gloss_tokens[k])]) IN
    IF q # <<>> THEN Take(q, Len(q) - 1) ELSE q

\* sp_gloss(text), doc being what nlp(t) returned for the stripped text
\* after the "coming through" fix-up: tokens with text, lemma_, pos_ and
\* is_punct; has_what_up is "WHAT-UP" in LEX
sp_gloss(text, doc, has_what_up) ==
    LET DROP_WORDS == {<<"u","h">>, <<"u","m">>, <<"o","k","a","y">>, <<"o","k">>}
        keep == {"NOUN", "VERB", "ADJ", "ADV", "PRON", "PROPN", "NUM"}
        drop == {"AUX", "DET", "PART", "ADP", "INTJ"}
        n == Len(doc)
        RECURSIVE loop(_, _)
        loop(i, raw) ==
            IF i >= n THEN raw
            ELSE LET tok == doc[i + 1]
                     low == lower(tok.text)
                     has1 == i + 1 < n /\ doc[i + 2].text # <<>>
                     has2 == i + 2 < n /\ doc[i + 3].text # <<>>
                     to1 == has1 /\ lower(doc[i + 2].text) = <<"t","o">> IN
                 IF tok.is_punct \/ low \in DROP_WORDS THEN loop(i + 1, raw)
                 ELSE IF /\ lower(tok.lemma_) = <<"g","o">>
                         /\ has1 /\ (to1 \/ low = <<"g","o","n","n","a">>)
                         /\ has2 /\ doc[i + 3].pos_ = "VERB"
                 THEN loop(i + 3, Append(raw, upper(doc[i + 3].lemma_)))
                 ELSE IF lower(tok.lemma_) = <<"g","o">> /\ to1
                 THEN loop(i + 2, raw)
                 ELSE IF tok.pos_ \in keep /\ tok.pos_ \notin drop
                 THEN loop(i + 1, Append(raw,
                          IF tok.pos_ \in {"PROPN", "PRON"} THEN upper(tok.text)
                          ELSE upper(tok.lemma_)))
                 ELSE loop(i + 1, raw)
        raw0 == loop(0, <<>>)
        raw1 == IF raw0 = <<<<"W","H","A","T">>, <<"U","P">>>> /\ has_what_up
                THEN <<<<"W","H","A","T","-","U","P">>>> ELSE raw0
        raw2 == [k \in 1..Len(raw1) |->
                    IF raw1[k] = <<"P","I","P","E","L","I","N","E">>
                    THEN <<"P","R","O","C","E","S","S">> ELSE raw1[k]] IN
    IF strip(text) = <<>> \/ strip(text) = <<"[","B","L","A","N","K","_","A","U","D","I","O","]">>
    THEN <<>>
    ELSE dedup(raw2)

(***************************************************************************)
(* The Glossifier, LexicalMatcher and queue functions on bounded inputs:   *)
(* Init draws the arguments of one call, the actions apply the function    *)
(***************************************************************************)
MaxTokens == 3

SeqsUpTo(S, n) == UNION {[1..k -> S] : k \in 0..n}

\* calls of sent_to_gloss_basic, sent_to_gloss_spacy and map_gloss_to_queue
GlossCalls ==
    LET words == {<<"h","e","l","l","o">>, <<"a","r","e">>, <<"t","h","e">>, <<"d","o","g","s">>, <<"I","U+2019","m">>, <<"j","a","m","e","s","'","s">>}
        texts == {<<"H","e","l","l","o"," ","t","h","e","r","e",".">>, <<"H","o","w"," ","a","r","e"," ","y","o","u"," ","t","o","d","a","y","?">>}
                     \cup {JoinWords(ws) : ws \in SeqsUpTo(words, MaxTokens)}
        tok(text, tag, lemma) ==
            [text |-> text, pos_ |-> tag, lemma_ |-> lemma, is_space |-> FALSE]
        toks == {tok(<<"A","r","e">>, "AUX", <<"b","e">>), tok(<<"t","h","e">>, "DET", <<"t","h","e">>),
                 tok(<<"d","o","g","s">>, "NOUN", <<"d","o","g">>), tok(<<"M","e">>, "PRON", <<"I">>),
                 tok(<<"t","h","a","n","k","i","n","g">>, "VERB", <<"t","h","a","n","k">>), tok(<<"w","e","n","t">>, "", <<>>),
                 [text |-> <<" ">>, pos_ |-> "SPACE", lemma_ |-> <<" ">>,
                  is_space |-> TRUE]}
        lower_lex ==
            (<<"h","e","l","l","o">> :> [label |-> <<"H","E","L","L","O">>, asset |-> <<"hello.mp4">>, dur_ms |-> 1])
            @@ (<<"y","o","u">> :> [asset |-> <<"you.mp4">>])
        mixed_lex ==
            lower_lex
            @@ (<<"H","i">> :> [label |-> <<"H","I">>, asset |-> <<"hi.mp4">>, dur_ms |-> 3])
            @@ (<<"z","z","z">> :> <<>>)
            @@ (<<"Z","Z","Z">> :> [label |-> <<"Z","Z","Z">>, dur_ms |-> 0])
        both_lex ==
            mixed_lex
            @@ (<<"h","i">> :> [label |-> <<"h","i">>, asset |-> <<"hi_lower.mp4">>, dur_ms |-> 5]) IN
    {[op |-> "sent_to_gloss_basic", text |-> text] : text \in texts}
    \cup {[op |-> "basic_lemma", tok |-> w] :
              w \in {<<"w","a","l","k","i","n","g">>,
                       <<"w","a","l","k","e","d">>,
                       <<"b","o","x","e","s">>,
                       <<"d","o","g","s">>,
                       <<"j","a","m","e","s","'","s">>,
                       <<"y","e","s">>,
                       <<"i","s">>,
                       <<"s","i","n","g">>,
                       <<"b","e","d">>,
                       <<"h","e","l","l","o">>,
                       <<"i","t","'","s">>,
                       <<"c","l","a","s","s","e","s">>,
                       <<"u","s">>,
                       <<"s">>,
                       <<"'","s">>,
                       <<"s","e","e","i","n","g">>,
                       <<"n","e","e","d">>}}
    \cup {[op |-> "sent_to_gloss_spacy", doc |-> doc] :
              doc \in SeqsUpTo(toks, MaxTokens)}
    \cup {[op |-> "map_gloss_to_queue", gloss |-> gloss, lex |-> lex,
           tween_ms |-> tween_ms, rate100 |-> rate100] :
              gloss \in SeqsUpTo({<<"H","E","L","L","O">>, <<"Y","O","U">>, <<"Z","Z","Z">>, <<"H","i">>}, MaxTokens),
              lex \in {lower_lex, mixed_lex, both_lex},
              tween_ms \in {0, 100}, rate100 \in {50, 100, 200, 400}}

\* calls of make_sign_queue.process_line and of gloss_transcript.to_queue
MatchCalls ==
    LET words == {<<"t","h","a","n","k">>, <<"y","o","u">>, <<"s","o">>, <<"h","e","l","l","o">>, <<"t","h","e">>, <<"x","y","z">>}
        lines == {<<"t","h","a","n","k"," ","y","o","u"," ","s","o"," ","m","u","c","h">>, <<"T","h","a","n","k"," ","y","o","u",","," ","s","o"," ","m","u","c","h","!","\n">>, <<" ", "\n">>}
                     \cup {JoinWords(ws) : ws \in SeqsUpTo(words, MaxTokens)}
        entry(label, asset, dur) ==
            [label |-> label, asset |-> <<asset>>, dur_ms |-> dur]
        phrases == (<<"t","h","a","n","k"," ","y","o","u">> :> entry(<<"T","H","A","N","K","-","Y","O","U">>, "thank_you.mp4", 900))
        nested == phrases
                  @@ (<<"t","h","a","n","k"," ","y","o","u"," ","s","o">> :> entry(<<"T","H","A","N","K","-","Y","O","U","-","S","O">>, "thank_you_so.mp4", 1200))
        plain == (<<"s","o">> :> entry(<<"S","O">>, "so.mp4", 0))
                 @@ (<<"m","u","c","h">> :> entry(<<"M","U","C","H">>, "much.mp4", 500))
                 @@ (<<"h","e","l","l","o">> :> [label |-> <<"H","E","L","L","O">>, asset |-> <<"hello.mp4">>])
        all == plain
               @@ (<<"t","h","e">> :> entry(<<"T","H","E">>, "the.mp4", 200))
               @@ (<<"t","h","a","n","k">> :> entry(<<"T","H","A","N","K">>, "thank.mp4", 400))
               @@ (<<"y","o","u">> :> entry(<<"Y","O","U">>, "you.mp4", 300))
        fingerspell == [label |-> <<"F","S">>, type |-> "fingerspell",
                        asset |-> <<"fs.mp4">>, per_char_ms |-> 180]
        LEX == (<<"H","E","L","L","O">> :> [type |-> "clip", asset |-> <<"hello.mp4">>,
                            dur_ms |-> 700])
               @@ (<<"Y","O","U">> :> [type |-> "clip", asset |-> <<"you.mp4">>])
        FINGS == {NoEntry,
                  [type |-> "fingerspell", asset |-> <<"fs.mp4">>,
                   per_char_ms |-> 150],
                  [type |-> "fingerspell", asset |-> <<"fs.mp4">>]}
        word(text, lemma, tag) ==
            [text |-> text, lemma_ |-> lemma, pos_ |-> tag, is_punct |-> FALSE]
        tagged == {word(<<"G","o","i","n","g">>, <<"g","o">>, "VERB"), word(<<"g","o">>, <<"g","o">>, "VERB"),
                   word(<<"g","o","n","n","a">>, <<"g","o">>, "VERB"), word(<<"t","o">>, <<"t","o">>, "PART"),
                   word(<<"e","a","t","i","n","g">>, <<"e","a","t">>, "VERB"), word(<<"s","c","h","o","o","l">>, <<"s","c","h","o","o","l">>, "NOUN"),
                   word(<<"u","h">>, <<"u","h">>, "INTJ"),
                   [text |-> <<".">>, lemma_ |-> <<".">>, pos_ |-> "PUNCT",
                    is_punct |-> TRUE]}
        clip_m(e, i, j) == [kind |-> "clip", entry |-> e, i |-> i, j |-> j]
        unknown_m(tok, i) == [kind |-> "unknown", tok |-> tok, i |-> i, j |-> i + 1]
        pm(i) == clip_m(phrases[<<"t","h","a","n","k"," ","y","o","u">>], i, i + 2)
        so(i) == clip_m(plain[<<"s","o">>], i, i + 1)
        much(i) == clip_m(plain[<<"m","u","c","h">>], i, i + 1)
        found == {<<>>, <<pm(0)>>, <<pm(0), so(2), much(3)>>, <<pm(1), so(0)>>,
                  <<pm(1), so(0), much(3)>>, <<pm(1), unknown_m(<<"x","y","z">>, 0)>>,
                  <<pm(2), so(0), unknown_m(<<"x","y","z">>, 1), much(4)>>,
                  <<so(0), much(1)>>} IN
    {[op |-> "process_line", line |-> ln, phrases_map |-> ph, words_map |-> wd,
      fingerspell_entry |-> fs] :
         ln \in lines, ph \in {<<>>, phrases, nested}, wd \in {plain, all},
         fs \in {NoEntry, fingerspell}}
    \cup {[op |-> "to_queue", gloss_tokens |-> gl, LEX |-> LEX, FING |-> fg] :
              gl \in SeqsUpTo({<<"H","E","L","L","O">>, <<"Y","O","U">>, <<"X","Y","Z">>, <<"B","2">>}, MaxTokens),
              fg \in FINGS}
    \cup {[op |-> "sp_gloss", doc |-> doc, has_what_up |-> FALSE,
           text |-> JoinWords([k \in 1..Len(doc) |-> doc[k].text])] :
              doc \in SeqsUpTo(tagged, MaxTokens)}
    \cup {[op |-> "matches_to_queue", matches |-> ms, fingerspell_entry |-> fs] :
              ms \in found, fs \in {NoEntry, fingerspell}}

callVars == <<in_burst, last_spoken, last_emitted, out, line,
              file, exists, pos, info, app, fed, wops, buf, seen, inp,
              last_label, assets, last_seen, repeats,
              keypoint_queue, stats, adders, gets>>

CallInit ==
    /\ in_burst = FALSE
    /\ last_spoken = None
    /\ last_emitted = None
    /\ out = <<>>
    /\ line = <<>>
    /\ file = <<>>
    /\ exists = TRUE
    /\ pc = "call"
    /\ pos = 0
    /\ info = 0
    /\ app = None
    /\ fed = <<>>
    /\ wops = 0
    /\ buf = <<>>
    /\ seen = {}
    /\ inp \in GlossCalls \cup MatchCalls
    /\ last_label = None
    /\ assets = <<>>
    /\ last_seen = <<>>
    /\ repeats = 0
    /\ keypoint_queue = <<>>
    /\ stats = [frame_count |-> 0]
    /\ adders = [p \in Producers |-> [pc |-> "idle", count |-> 0, calls |-> 0]]
    /\ gets = 0
    /\ res = <<>>

\* the call sent_to_gloss_basic(text)
GBasic ==
    /\ pc = "call"
    /\ inp.op = "sent_to_gloss_basic"
    /\ res' = sent_to_gloss_basic(inp.text)
    /\ pc' = "done"
    /\ UNCHANGED callVars

\* the call basic_lemma(tok)
GLemma ==
    /\ pc = "call"
    /\ inp.op = "basic_lemma"
    /\ res' = basic_lemma(inp.tok)
    /\ pc' = "done"
    /\ UNCHANGED callVars

\* the call sent_to_gloss_spacy(nlp, text), doc being what nlp(text) returned
GSpacy ==
    /\ pc = "call"
    /\ inp.op = "sent_to_gloss_spacy"
    /\ res' = sent_to_gloss_spacy(inp.doc)
    /\ pc' = "done"
    /\ UNCHANGED callVars

\* the call map_gloss_to_queue(gloss, lex, tween_ms, rate)
GMap ==
    /\ pc = "call"
    /\ inp.op = "map_gloss_to_queue"
    /\ res' = map_gloss_to_queue(inp.gloss, inp.lex, inp.tween_ms, inp.rate100)
    /\ pc' = "done"
    /\ UNCHANGED callVars

\* the call process_line(line, phrases_map, words_map, fingerspell_entry)
MProcessLine ==
    /\ pc = "call"
    /\ inp.op = "process_line"
    /\ res' = process_line(inp.line, inp.phrases_map, inp.words_map,
                           inp.fingerspell_entry)
    /\ pc' = "done"
    /\ UNCHANGED callVars

\* the call to_queue(gloss_tokens) of gloss_transcript.py
MToQueue ==
    /\ pc = "call"
    /\ inp.op = "to_queue"
    /\ res' = gt_to_queue(inp.LEX, inp.FING, inp.gloss_tokens)
    /\ pc' = "done"
    /\ UNCHANGED callVars

\* the call to_queue(matches, fingerspell_entry) of make_sign_queue.py, on
\* a match list laid out as process_line does: phrase matches, then words
MMatchesToQueue ==
    /\ pc = "call"
    /\ inp.op = "matches_to_queue"
    /\ res' = to_queue(inp.matches, inp.fingerspell_entry)
    /\ pc' = "done"
    /\ UNCHANGED callVars

\* the call sp_gloss(text) of gloss_transcript.py
GTGloss ==
    /\ pc = "call"
    /\ inp.op = "sp_gloss"
    /\ res' = sp_gloss(inp.text, inp.doc, inp.has_what_up)
    /\ pc' = "done"
    /\ UNCHANGED callVars

CallNext ==
    \/ GBasic
    \/ GLemma
    \/ GSpacy
    \/ GMap
    \/ MProcessLine
    \/ MToQueue
    \/ MMatchesToQueue
    \/ GTGloss

CallSpec == CallInit /\ [][CallNext]_vars

(***************************************************************************)
(* Properties of the Glossifier, the LexicalMatcher and queue assembly     *)
(***************************************************************************)
NonTweens(queue) == SelectSeq(queue, LAMBDA it : it.type # "meta")

\* the gloss tokens map_gloss_to_queue finds an entry for
ResolvedTokens(lex, gloss) ==
    SelectSeq(gloss, LAMBDA g :
        \/ lower(g) \in DOMAIN lex /\ lex[lower(g)] # NoEntry
        \/ g \in DOMAIN lex /\ lex[g] # NoEntry)

LineDone == pc = "done" /\ inp.op = "process_line"

\* the tokens process_line hands to the matcher
LineTokens(call) == split(norm_text(strip(call.line)))

\* the queue a finished call produced (empty when no record is written)
QueueOf(call, r) ==
    IF call.op = "process_line"
    THEN (IF r = NoRecord THEN <<>> ELSE r.queue)
    ELSE r

\* C12: the gloss sequence of a sign-queue record never holds two identical
\* adjacent gloss tokens, in any pipeline variant.
C12_NoAdjacentGloss ==
    /\ (pc = "done" /\ inp.op \in {"sent_to_gloss_basic", "sent_to_gloss_spacy"})
           => NoAdjacentEqual(res)
    /\ (LineDone /\ res # NoRecord) => NoAdjacentEqual(res.gloss)

\* C13: in the tagged and in the fallback Glossifier the mapped gloss of
\* every token found in CUSTOM_MAP is part of the returned gloss sequence
\* (collapsing adjacent duplicates keeps one copy): no later filter removes it.
C13_CustomMapWins ==
    (pc = "done" /\ inp.op \in {"sent_to_gloss_basic", "sent_to_gloss_spacy"}) =>
        LET found == WORD_RE_findall(inp.text)
            words == SelectSeq(inp.doc, LAMBDA t : ~t.is_space)
            toks == IF inp.op = "sent_to_gloss_basic"
                    THEN [i \in 1..Len(found) |-> normalize_token(found[i])]
                    ELSE [i \in 1..Len(words) |-> normalize_token(words[i].text)] IN
        \A i \in 1..Len(toks) :
            toks[i] \in DOMAIN CUSTOM_MAP => CUSTOM_MAP[toks[i]] \in Range(res)

\* C14: the fallback Glossifier turns "Hello there." into [HELLO] and
\* "How are you today?" into [HOW, BE, YOU, TODAY].
C14_FallbackExamples ==
    (pc = "done" /\ inp.op = "sent_to_gloss_basic") =>
        /\ inp.text = <<"H","e","l","l","o"," ","t","h","e","r","e",".">> => res = <<<<"H","E","L","L","O">>>>
        /\ inp.text = <<"H","o","w"," ","a","r","e"," ","y","o","u"," ","t","o","d","a","y","?">> => res = <<<<"H","O","W">>, <<"B","E">>, <<"Y","O","U">>, <<"T","O","D","A","Y">>>>

\* C15: with a non-zero tween, a gloss line of which N >= 1 tokens resolve
\* gives exactly N clips and N - 1 tweens, and the queue starts and ends
\* with a clip.
C15_ClipsAndTweens ==
    (/\ pc = "done" /\ inp.op = "map_gloss_to_queue"
     /\ inp.tween_ms # 0
     /\ Len(ResolvedTokens(inp.lex, inp.gloss)) >= 1) =>
        LET N == Len(ResolvedTokens(inp.lex, inp.gloss)) IN
        /\ Len(NonTweens(res)) = N
        /\ Len(res) - Len(NonTweens(res)) = N - 1
        /\ res[1].type = "clip"
        /\ res[Len(res)].type = "clip"

\* C16: a queue assembled by make_sign_queue.to_queue or by
\* gloss_transcript.to_queue never ends in a tween and never has two
\* adjacent tweens, with or without a fingerspell entry, whichever tokens
\* are unknown.
C16_NoTrailingTween ==
    (pc = "done" /\ inp.op \in {"process_line", "to_queue"}) =>
        LET q == QueueOf(inp, res) IN
        \/ q = <<>>
        \/ /\ q[Len(q)].type # "meta"
           /\ \A k \in 1..(Len(q) - 1) :
                  ~(q[k].type = "meta" /\ q[k + 1].type = "meta")

\* C17: every clip's dur_ms is max(1, round(entry.dur_ms / rate)), a
\* positive integer: rate 2.0 halves it (never below 1), rate 1.0 keeps it.
C17_ScaledDuration ==
    /\ (pc = "done" /\ inp.op = "map_gloss_to_queue") =>
          LET toks == ResolvedTokens(inp.lex, inp.gloss)
              clips == NonTweens(res) IN
          /\ Len(clips) = Len(toks)
          /\ \A k \in 1..Len(clips) :
                 LET entry == lookup(inp.lex, toks[k]) IN
                 /\ clips[k].dur_ms >= 1
                 /\ clips[k].dur_ms =
                        Max(1, RoundHalfEven(Get(entry, "dur_ms", DefaultDurMs) * 100,
                                             inp.rate100))
    /\ LineDone =>
          \A k \in 1..Len(QueueOf(inp, res)) : QueueOf(inp, res)[k].dur_ms >= 1

\* C18: a token span found in the phrase table is consumed as one phrase
\* match and its tokens get no single-word match: [thank, you, so, much]
\* with the phrase "thank you" and the words so, much gives the three
\* matches THANK-YOU, SO, MUCH.
C18_PhraseFirst ==
    LineDone =>
        LET tokens == LineTokens(inp)
            spans == {Phrase(tokens, a, b) : a \in 0..Len(tokens), b \in 0..Len(tokens)}
                         \cap DOMAIN inp.phrases_map IN
        /\ \A p \in spans :
               /\ res # NoRecord
               /\ inp.phrases_map[p].label \in Range(res.gloss)
        /\ (tokens = <<<<"t","h","a","n","k">>, <<"y","o","u">>, <<"s","o">>, <<"m","u","c","h">>>>
                /\ <<"t","h","a","n","k"," ","y","o","u">> \in DOMAIN inp.phrases_map)
               => /\ res # NoRecord
                  /\ res.gloss = <<inp.phrases_map[<<"t","h","a","n","k"," ","y","o","u">>].label,
                                   inp.words_map[<<"s","o">>].label,
                                   inp.words_map[<<"m","u","c","h">>].label>>

\* C19: a stop-word that is a key of the word table is matched and emitted
\* as a clip; a stop-word is dropped only when the word table lacks it.
C19_StopWordInTable ==
    LineDone =>
        LET tokens == LineTokens(inp) IN
        \A k \in 1..Len(tokens) :
            (tokens[k] \in STOPWORDS /\ tokens[k] \in DOMAIN inp.words_map)
                => /\ res # NoRecord
                   /\ inp.words_map[tokens[k]].label \in Range(res.gloss)

\* C20: a token in neither table gives, when a fingerspell entry exists,
\* exactly one fingerspell clip whose dur_ms is the token's character count
\* times the per-character duration; without a fingerspell entry it gives
\* no queue item.  (Stop-words, dropped by their own rule, and tokens of a
\* phrase key are not counted as unknown here.)
C20_UnknownToken ==
    /\ LineDone =>
          LET in_phrase(tok) ==
                  \E p \in DOMAIN inp.phrases_map : tok \in Range(split(p))
              unknown == SelectSeq(LineTokens(inp),
                             LAMBDA tok : /\ tok \notin DOMAIN inp.words_map
                                          /\ tok \notin STOPWORDS
                                          /\ ~in_phrase(tok))
              fs == inp.fingerspell_entry
              q == QueueOf(inp, res) IN
          IF fs # NoEntry
          THEN LET spelled == SelectSeq(NonTweens(q),
                                        LAMBDA it : it.asset = fs.asset) IN
               /\ Len(spelled) = Len(unknown)
               /\ \A k \in 1..Len(spelled) :
                      spelled[k].dur_ms = Len(unknown[k]) * fs.per_char_ms
          ELSE Len(NonTweens(q)) <= Len(LineTokens(inp)) - Len(unknown)
    /\ (pc = "done" /\ inp.op = "to_queue") =>
          LET unknown == SelectSeq(inp.gloss_tokens,
                                   LAMBDA g : g \notin DOMAIN inp.LEX) IN
          IF inp.FING # NoEntry
          THEN LET spelled == SelectSeq(res, LAMBDA it : it.type = inp.FING.type) IN
               /\ Len(spelled) = Len(unknown)
               /\ \A k \in 1..Len(spelled) :
                      spelled[k].dur_ms =
                          Len(unknown[k])
                              * Get(inp.FING, "per_char_ms", DefaultPerCharMs)
          ELSE Len(NonTweens(res)) = Len(inp.gloss_tokens) - Len(unknown)

(***************************************************************************)
(* Further properties of the segmenter                                     *)
(***************************************************************************)
\* C29: the burst is active exactly when a non-empty held text is stored:
\* the segmenter is either idle or accumulating, never in a mixed state.
C29_IdleOrAccumulating ==
    /\ in_burst <=> Truthy(last_spoken)
    /\ ~in_burst => last_spoken = None

\* the segmenter is accumulating again after it has written a sentence
C29_Witness ==
    /\ in_burst
    /\ Truthy(last_spoken)
    /\ out # <<>>
    /\ last_spoken # last_emitted

\* C30: a spoken line without terminal punctuation replaces the held text
\* and writes nothing; the tag line that closes the burst writes at most
\* one sentence, the finalized form of the held (most recent) spoken line.
C30_LatestLineOfBurst ==
    [][/\ (IsSpokenLine(line') /\ ~IsPunctLine(line'))
              => (last_spoken' = Spoken(line') /\ out' = out)
       /\ IsTagLine(line')
              => IF in_burst
                 THEN out' \in {out, Append(out, finalize_text(clean_text(last_spoken)))}
                 ELSE out' = out]_vars

\* a tag line has just closed a burst whose most recent line was the
\* unpunctuated "hello  world", and wrote its finalized form
C30_Witness ==
    /\ IsTagLine(line)
    /\ Idle
    /\ out # <<>>
    /\ out[Len(out)] = finalize_text(Spoken(L_helloBare))
    /\ last_emitted = out[Len(out)]

(***************************************************************************)
(* The sentence file across runs of the finalize stage                     *)
(***************************************************************************)
\* C23: the stage's output file is append-only across stage runs, a stop
\* and a new start included: every step keeps the sentence lines already
\* written as a prefix of the file.
C23_OutputAppendOnly ==
    [][/\ Len(out) <= Len(out')
       /\ SubSeq(out', 1, Len(out)) = out]_vars

(***************************************************************************)
(* Entry resolution and match order                                        *)
(***************************************************************************)
\* C26: map_gloss_to_queue resolves each gloss token by its exact key
\* first and by its lower-cased key second; a token that resolves by
\* neither adds no queue item, and the clips of the resolved tokens appear
\* in the order of the gloss sequence.
C26_ExactKeyFirst ==
    (pc = "done" /\ inp.op = "map_gloss_to_queue") =>
        LET pick(g) == IF Get(inp.lex, g, NoEntry) # NoEntry
                       THEN inp.lex[g]
                       ELSE Get(inp.lex, lower(g), NoEntry)
            resolved == SelectSeq(inp.gloss, LAMBDA g : pick(g) # NoEntry)
            clips == NonTweens(res) IN
        /\ Len(clips) = Len(resolved)
        /\ \A k \in 1..Len(clips) :
               /\ clips[k].label = Get(pick(resolved[k]), "label", resolved[k])
               /\ clips[k].asset = Get(pick(resolved[k]), "asset", None)

\* C27: the LexicalMatcher emits its matches in the order of the original
\* token positions, not in the order in which the two passes found them
\* (phrases before words), and no token position belongs to two matches.
C27_MatchesInTokenOrder ==
    (pc = "done" /\ inp.op \in {"process_line", "matches_to_queue"}) =>
        LET tokens == LineTokens(inp)
            ph == greedy_phrase_first(tokens, inp.phrases_map)
            ms == IF inp.op = "process_line"
                  THEN ph.out \o words_on_remaining(tokens, ph.used, inp.words_map)
                  ELSE inp.matches
            fs == inp.fingerspell_entry
            gloss == IF res = NoRecord THEN <<>> ELSE res.gloss
            label(m) == IF m.kind = "clip" THEN <<m.entry.label>>
                        ELSE IF fs # NoEntry
                        THEN <<fs.label \o <<"(">> \o m.tok \o <<")">>>>
                        ELSE <<>>
            at(p) == {k \in 1..Len(ms) : ms[k].i = p}
            ends == {ms[k].j : k \in 1..Len(ms)} \cup {0}
            n == CHOOSE x \in ends : \A y \in ends : y <= x
            by_position ==
                Flatten([p \in 1..n |->
                            IF at(p - 1) = {} THEN <<>>
                            ELSE label(ms[CHOOSE k \in at(p - 1) : TRUE])]) IN
        /\ \A k, l \in 1..Len(ms) :
               k # l => (ms[k].j <= ms[l].i \/ ms[l].j <= ms[k].i)
        /\ gloss = by_position

\* a phrase match found first but placed after a word came out second
C27_Witness ==
    /\ pc = "done"
    /\ inp.op = "matches_to_queue"
    /\ Len(inp.matches) >= 2
    /\ inp.matches[1].i > inp.matches[2].i
    /\ inp.matches[2].kind = "clip"
    /\ Len(res.gloss) >= 2
    /\ res.gloss[1] = inp.matches[2].entry.label
    /\ res.gloss[2] = inp.matches[1].entry.label

(***************************************************************************)
(* stream_queue_assets.py: the QueueStreamer                               *)
(*                                                                         *)
(* The source file is a sequence of lines, each given by what line.strip() *)
(* and json.loads make of it: kind "blank" (empty after strip), "invalid"  *)
(* (JSONDecodeError), "other" (valid JSON that is not an object) or        *)
(* "object" (a dict, with or without the key "queue").  Labels and assets  *)
(* are texts; an item that is not a dict is the record [nondict |-> TRUE]. *)
(* The stage is run with --out: out is that file and buf the lines written *)
(* to the open file object and not yet flushed.                            *)
(***************************************************************************)
MaxRecords == 3

\* process_line(line, last_label): the assets to emit, the clips they belong
\* to, the new last_label[0], and whether the call raised (AttributeError
\* from .get on a value that is not a dict)
stream_process_line(ln, last) ==
    LET queue == Get(ln, "queue", <<>>)
        RECURSIVE loop(_, _, _)
        loop(k, prev, acc) ==
            IF k > Len(queue)
            THEN [raised |-> FALSE, clips |-> acc, last_label |-> prev]
            ELSE LET item == queue[k]
                     label == Get(item, "label", None)
                     asset == Get(item, "asset", None) IN
                 IF "nondict" \in DOMAIN item
                 THEN [raised |-> TRUE, clips |-> acc, last_label |-> prev]
                 ELSE IF Get(item, "type", "None") # "clip" THEN loop(k + 1, prev, acc)
                 ELSE IF ~Truthy(asset) THEN loop(k + 1, prev, acc)
                 ELSE IF Truthy(label) /\ label = prev THEN loop(k + 1, prev, acc)
                 ELSE loop(k + 1, label,
                           Append(acc, [label |-> label, asset |-> asset]))
        r == IF ln.kind \in {"blank", "invalid"}
             THEN [raised |-> FALSE, clips |-> <<>>, last_label |-> last]
             ELSE IF ln.kind = "other"
             THEN [raised |-> TRUE, clips |-> <<>>, last_label |-> last]
             ELSE loop(1, last, <<>>) IN
    [raised |-> r.raised, clips |-> r.clips, last_label |-> r.last_label,
     assets |-> [k \in 1..Len(r.clips) |-> r.clips[k].asset]]

\* the asset lines one uninterrupted run of main writes for the lines of a
\* source: process_line on each line in turn, from last_label = [None],
\* until a call raises
RunAssets(lines) ==
    LET RECURSIVE run(_, _)
        run(k, last) ==
            IF k > Len(lines) THEN <<>>
            ELSE LET r == stream_process_line(lines[k], last) IN
                 IF r.raised THEN <<>>
                 ELSE r.assets \o run(k + 1, r.last_label) IN
    run(1, None)

\* the upstream stage appends one record line to the sign-queue file
SAppend ==
    LET clip(l, a) == [label |-> <<l>>, type |-> "clip", asset |-> <<a>>, dur_ms |-> 500]
        meta == [label |-> <<"_TWEEN">>, type |-> "meta", dur_ms |-> 100]
        object(q) == [kind |-> "object", queue |-> q]
        records ==
            {[kind |-> "blank"], [kind |-> "invalid"], [kind |-> "other"],
             [kind |-> "object"],
             object(<<clip("HELLO", "hello.mp4"), meta, clip("YOU", "you.mp4")>>),
             object(<<clip("YOU", "you.mp4")>>),
             object(<<[label |-> <<"ME">>, type |-> "clip"],
                      [label |-> <<>>, type |-> "clip", asset |-> <<"a.mp4">>],
                      [type |-> "clip", asset |-> <<"b.mp4">>],
                      [type |-> "clip", asset |-> <<"c.mp4">>],
                      [label |-> <<>>, type |-> "clip", asset |-> <<"a.mp4">>]>>),
             object(<<clip("YOU", "you.mp4"), [nondict |-> TRUE]>>)} IN
    /\ Len(file) < MaxRecords
    /\ \E r \in records : file' = Append(file, r)
    /\ UNCHANGED <<segVars, line, exists, pc, pos, info, app, fed, wops, buf,
                   seen, inp, res, last_label, assets, last_seen, repeats,
                   keypoint_queue, stats, adders, gets>>

\* main, lines 57-63, run for the first time or again after the stage
\* stopped: last_label = [None], the --out file is opened for appending and
\* closed, and follow_lines starts at the beginning of the source
SStart ==
    /\ pc \in {"start", "stopped", "AttributeError"}
    /\ Len(out) <= MaxOut
    /\ last_label' = None
    /\ assets' = <<>>
    /\ pos' = 0
    /\ fed' = <<>>
    /\ buf' = <<>>
    /\ pc' = "follow"
    /\ UNCHANGED <<in_burst, last_spoken, last_emitted, out, line, file, exists,
                   info, app, wops, seen, inp, res, last_seen, repeats,
                   keypoint_queue, stats, adders, gets>>

SLine_ForgetsLabel ==
    /\ pc = "follow"
    /\ pos < Len(file)
    /\ pos' = pos + 1
    /\ line' = file[pos + 1]
    /\ LET r == stream_process_line(file[pos + 1], None) IN
       /\ last_label' = r.last_label
       /\ assets' = r.assets
       /\ fed' = fed \o r.clips
       /\ pc' = IF r.raised THEN "AttributeError"
                ELSE IF r.assets = <<>> THEN "follow" ELSE "write"
    /\ buf' = <<>>
    /\ UNCHANGED <<in_burst, last_spoken, last_emitted, out, file, exists,
                   info, app, wops, seen, inp, res, last_seen, repeats,
                   keypoint_queue, stats, adders, gets>>

SLine_ResetsOnError ==
    /\ pc = "follow"
    /\ pos < Len(file)
    /\ pos' = pos + 1
    /\ line' = file[pos + 1]
    /\ LET r == stream_process_line(file[pos + 1], last_label) IN
       /\ last_label' = IF file[pos + 1].kind = "invalid" THEN None
                        ELSE r.last_label
       /\ assets' = r.assets
       /\ fed' = fed \o r.clips
       /\ pc' = IF r.raised THEN "AttributeError"
                ELSE IF r.assets = <<>> THEN "follow" ELSE "write"
    /\ buf' = <<>>
    /\ UNCHANGED <<in_burst, last_spoken, last_emitted, out, file, exists,
                   info, app, wops, seen, inp, res, last_seen, repeats,
                   keypoint_queue, stats, adders, gets>>

\* lines 63-68: follow_lines hands on the next line and process_line runs
\* on it; no assets: continue, otherwise the --out file is opened
SLine ==
    /\ pc = "follow"
    /\ pos < Len(file)
    /\ pos' = pos + 1
    /\ line' = file[pos + 1]
    /\ LET r == stream_process_line(file[pos + 1], last_label) IN
       /\ last_label' = r.last_label
       /\ assets' = r.assets
       /\ fed' = fed \o r.clips
       /\ pc' = IF r.raised THEN "AttributeError"
                ELSE IF r.assets = <<>> THEN "follow" ELSE "write"
    /\ buf' = <<>>
    /\ UNCHANGED <<in_burst, last_spoken, last_emitted, out, file, exists,
                   info, app, wops, seen, inp, res, last_seen, repeats,
                   keypoint_queue, stats, adders, gets>>

\* lines 69-70: one f.write(a + "\n") into the open file object
SWrite ==
    /\ pc = "write"
    /\ Len(buf) < Len(assets)
    /\ buf' = Append(buf, assets[Len(buf) + 1])
    /\ UNCHANGED <<segVars, line, file, exists, pc, pos, info, app, fed, wops,
                   seen, inp, res, last_label, assets, last_seen, repeats,
                   keypoint_queue, stats, adders, gets>>

SClose_Prepends ==
    /\ pc = "write"
    /\ Len(buf) = Len(assets)
    /\ out' = buf \o out
    /\ buf' = <<>>
    /\ pc' = "follow"
    /\ UNCHANGED <<in_burst, last_spoken, last_emitted, line, file, exists, pos,
                   info, app, fed, wops, seen, inp, res, last_label, assets,
                   last_seen, repeats,
                   keypoint_queue, stats, adders, gets>>

\* end of the with block: the file is closed, which flushes the written
\* lines; the prints of lines 72-73 repeat them on stdout and leave the
\* file alone
SClose ==
    /\ pc = "write"
    /\ Len(buf) = Len(assets)
    /\ out' = out \o buf
    /\ buf' = <<>>
    /\ pc' = "follow"
    /\ UNCHANGED <<in_burst, last_spoken, last_emitted, line, file, exists, pos,
                   info, app, fed, wops, seen, inp, res, last_label, assets,
                   last_seen, repeats,
                   keypoint_queue, stats, adders, gets>>

\* lines 77-78: KeyboardInterrupt, raised wherever the loop is; leaving the
\* with block closes the file and flushes what was written so far
SInterrupt ==
    /\ pc \in {"follow", "write"}
    /\ out' = out \o buf
    /\ buf' = <<>>
    /\ pc' = "stopped"
    /\ UNCHANGED <<in_burst, last_spoken, last_emitted, line, file, exists, pos,
                   info, app, fed, wops, seen, inp, res, last_label, assets,
                   last_seen, repeats,
                   keypoint_queue, stats, adders, gets>>

StreamInit ==
    /\ in_burst = FALSE
    /\ last_spoken = None
    /\ last_emitted = None
    /\ out = <<>>
    /\ line = <<>>
    /\ file = <<>>
    /\ exists = TRUE
    /\ pc = "start"
    /\ pos = 0
    /\ info = 0
    /\ app = None
    /\ fed = <<>>
    /\ wops = 0
    /\ buf = <<>>
    /\ seen = {}
    /\ inp = None
    /\ res = <<>>
    /\ last_label = None
    /\ assets = <<>>
    /\ last_seen = <<>>
    /\ repeats = 0
    /\ keypoint_queue = <<>>
    /\ stats = [frame_count |-> 0]
    /\ adders = [p \in Producers |-> [pc |-> "idle", count |-> 0, calls |-> 0]]
    /\ gets = 0

StreamNext ==
    \/ SAppend
    \/ SStart
    \/ SLine
    \/ SWrite
    \/ SClose
    \/ SInterrupt

StreamSpec == StreamInit /\ [][StreamNext]_vars

(***************************************************************************)
(* Properties of the QueueStreamer; fed is the history of the clips whose  *)
(* assets the current run has emitted                                      *)
(***************************************************************************)
\* C21 as stated: within a run, across record boundaries too, no emitted
\* clip has the label of the clip emitted immediately before it.
C21_NoRepeatedLabel ==
    \A k \in 1..(Len(fed) - 1) : fed[k + 1].label # fed[k].label

\* C21: within a run, across record boundaries too, no emitted clip with a
\* non-empty label has the label of the clip emitted immediately before it;
\* clips without a label, or with an empty one, are never suppressed.
C21_NoRepeatedNamedLabel ==
    \A k \in 1..(Len(fed) - 1) :
        Truthy(fed[k + 1].label) => fed[k + 1].label # fed[k].label

\* a record ending in YOU was followed by a record starting with YOU, and
\* the two records together gave one asset for it
C21_Witness ==
    /\ pc = "follow"
    /\ pos = 2
    /\ Len(file) >= 2
    /\ Get(file[1], "queue", <<>>) # <<>>
    /\ Get(file[2], "queue", <<>>) # <<>>
    /\ Len(file[1].queue) = 3
    /\ file[1].queue[3].label = <<"YOU">>
    /\ file[2].queue = <<file[1].queue[3]>>
    /\ assets = <<>>
    /\ last_label = <<"YOU">>
    /\ out = <<<<"hello.mp4">>, <<"you.mp4">>>>

\* C22: a line that fails to decode gives no assets, leaves last_label
\* unchanged and does not stop the stream; the clips the run emits are
\* those of a run over the same lines without the undecodable ones.
C22_DecodeFailureSkipped ==
    [][/\ (pc = "follow" /\ pos' = pos + 1 /\ line'.kind = "invalid")
              => /\ assets' = <<>>
                 /\ last_label' = last_label
                 /\ out' = out
                 /\ pc' = "follow"
       /\ pc' \in {"follow", "write"}
              => [k \in 1..Len(fed') |-> fed'[k].asset]
                     = RunAssets(SelectSeq(SubSeq(file', 1, pos'),
                                           LAMBDA l : l.kind # "invalid"))]_vars

\* an undecodable line stood between a record ending in YOU and a record
\* starting with YOU; the stream went on and the repeat was still suppressed
C22_Witness ==
    /\ pc = "follow"
    /\ pos = 3
    /\ Len(file) >= 3
    /\ file[2].kind = "invalid"
    /\ file[1].kind = "object" /\ file[3].kind = "object"
    /\ line = file[3]
    /\ fed # <<>>
    /\ fed[Len(fed)].label = <<"YOU">>
    /\ Get(file[3], "queue", <<>>) = <<[label |-> <<"YOU">>, type |-> "clip",
                          asset |-> <<"you.mp4">>, dur_ms |-> 500]>>
    /\ out = <<<<"hello.mp4">>, <<"you.mp4">>>>

\* C24: whether or not the stage was stopped and started again, the asset
\* file holds what one uninterrupted run over the source writes (a prefix
\* of it while the run is under way): a rescan adds no assets.
C24_RescanAddsNothing ==
    LET whole == RunAssets(file) IN
    /\ Len(out) <= Len(whole)
    /\ SubSeq(whole, 1, Len(out)) = out

\* C25: an interrupt leaves whole units in the asset file: the step that
\* stops the stage adds either nothing or all asset lines of the record
\* in hand.
C25_InterruptLeavesWholeGroups ==
    [][pc' = "stopped" => (out' = out \/ out' = out \o assets)]_vars

(***************************************************************************)
(* gloss_transcript.py: tail_file and emit                                 *)
(*                                                                         *)
(* out is the sign-queue file, one record per line.  A transcript line is  *)
(* given with the gloss sp_gloss returns for it, which depends on the      *)
(* tagger; "Okay." holds a dropped word and punctuation only, so its gloss *)
(* is empty whatever the tagger says.                                      *)
(***************************************************************************)
MaxRepeats == 3

\* lines 116-120: the state tail_file starts its loop with
GlossTailInit ==
    /\ in_burst = FALSE
    /\ last_spoken = None
    /\ last_emitted = <<>>
    /\ out = <<>>
    /\ line = <<>>
    /\ file = <<>>
    /\ exists = TRUE
    /\ pc = "tail"
    /\ pos = 0
    /\ info = 0
    /\ app = None
    /\ fed = <<>>
    /\ wops = 0
    /\ buf = <<>>
    /\ seen = {}
    /\ inp = None
    /\ res = <<>>
    /\ last_label = None
    /\ assets = <<>>
    /\ last_seen = <<>>
    /\ repeats = 0
    /\ keypoint_queue = <<>>
    /\ stats = [frame_count |-> 0]
    /\ adders = [p \in Producers |-> [pc |-> "idle", count |-> 0, calls |-> 0]]
    /\ gets = 0

\* lines 126-145 and emit, 95-108: one line read by the loop
GTLine ==
    LET DEBOUNCE_REPEATS == 1
        threshold == Max(DEBOUNCE_REPEATS, 1)
        BLANK_AUDIO == <<"[","B","L","A","N","K","_","A","U","D","I","O","]">>
        read == {[text |-> <<"Y","o","u"," ","g","o"," ","h","o","m","e",".","\n">>, gloss |-> <<<<"Y","O","U">>, <<"G","O">>, <<"H","O","M","E">>>>],
                 [text |-> <<"T","h","a","n","k"," ","y","o","u","\n">>, gloss |-> <<<<"T","H","A","N","K">>, <<"Y","O","U">>>>],
                 [text |-> <<" ","O","k","a","y",".","\n">>, gloss |-> <<>>],
                 [text |-> <<" ","\n">>, gloss |-> <<>>],
                 [text |-> <<"[","B","L","A","N","K","_","A","U","D","I","O","]","\n">>, gloss |-> <<>>]} IN
    /\ pc = "tail"
    /\ Len(out) < MaxOut
    /\ \E l \in read :
          LET s == strip(l.text)
              count == IF s = last_seen THEN repeats + 1 ELSE 1 IN
          /\ line' = l.text
          /\ count <= MaxRepeats
          /\ IF s = <<>> \/ s = BLANK_AUDIO
             THEN UNCHANGED <<last_seen, repeats, last_emitted, out>>
             ELSE /\ last_seen' = s
                  /\ repeats' = count
                  /\ IF count >= threshold /\ s # last_emitted
                     THEN /\ out' = IF l.gloss = <<>> THEN out
                                    ELSE Append(out, [input |-> strip(s),
                                                      gloss |-> l.gloss])
                          /\ last_emitted' = s
                     ELSE UNCHANGED <<last_emitted, out>>
    /\ UNCHANGED <<in_burst, last_spoken, file, exists, pc, pos, info, app, fed,
                   wops, buf, seen, inp, res, last_label, assets,
                   keypoint_queue, stats, adders, gets>>

GlossTailNext == GTLine

GlossTailSpec == GlossTailInit /\ [][GlossTailNext]_vars

\* C28: the sign-queue stream never holds two consecutive records with the
\* same input sentence, also when a line in between gave no record because
\* its gloss was empty.
C28_NoRepeatedInput ==
    \A k \in 1..(Len(out) - 1) : out[k + 1].input # out[k].input

(***************************************************************************)
(* Ignored lines of the segmenter                                          *)
(***************************************************************************)
\* C31: a blank line, and a non-tag line whose text is empty once the
\* inline bracket annotations are stripped, is ignored: nothing is written
\* and in_burst, last_spoken and last_emitted are unchanged.
C31_EmptyLineIgnored ==
    [][(\/ IsBlankLine(line')
        \/ /\ ~IsBlankLine(line')
           /\ ~IsTagLine(line')
           /\ Spoken(line') = <<>>)
          => UNCHANGED <<in_burst, last_spoken, last_emitted, out>>]_vars

\* a line of annotations only was fed during a burst, after a sentence had
\* been written, and the burst is still held
C31_Witness ==
    /\ ~IsBlankLine(line)
    /\ ~IsTagLine(line)
    /\ Spoken(line) = <<>>
    /\ in_burst
    /\ Truthy(last_spoken)
    /\ out # <<>>

(***************************************************************************)
(* Longest phrase at a position                                            *)
(***************************************************************************)
\* C32: when phrases of different lengths of the phrase table start at the
\* first token (a position no earlier match can have consumed), the matcher
\* consumes the longest of them and goes on after it: the record's gloss
\* starts with that phrase's label and the next match starts past it.
C32_LongestPhraseWins ==
    LineDone =>
        LET tokens == LineTokens(inp)
            n == Len(tokens)
            lens == {L \in 2..(IF 6 <= n THEN 6 ELSE n) :
                        Phrase(tokens, 0, L) \in DOMAIN inp.phrases_map}
            longest == CHOOSE L \in lens : \A M \in lens : M <= L
            ph == greedy_phrase_first(tokens, inp.phrases_map) IN
        Cardinality(lens) >= 2 =>
            /\ ph.out # <<>>
            /\ ph.out[1].i = 0 /\ ph.out[1].j = longest
            /\ \A k \in 2..Len(ph.out) : ph.out[k].i >= longest
            /\ res # NoRecord
            /\ res.gloss[1] = inp.phrases_map[Phrase(tokens, 0, longest)].label

(***************************************************************************)
(* The fallback lemmatizer                                                 *)
(***************************************************************************)
\* C34: basic_lemma strips a possessive 's, then strips the longest of the
\* suffixes -ing, -ed, -es, -s that the token ends with and that leaves a
\* stem of at least two characters; a token with no such suffix is
\* returned as it is (after the possessive), and one suffix at most goes.
C34_LongestSuffixStripped ==
    (pc = "done" /\ inp.op = "basic_lemma") =>
        LET t == IF endswith(inp.tok, <<"'","s">>)
                 THEN Take(inp.tok, Len(inp.tok) - 2) ELSE inp.tok
            fits == {suf \in {<<"i","n","g">>, <<"e","d">>, <<"e","s">>, <<"s">>} :
                        endswith(t, suf) /\ Len(t) - Len(suf) >= 2}
            longest == CHOOSE suf \in fits : \A o \in fits : Len(o) <= Len(suf) IN
        IF fits = {} THEN res = t
        ELSE res = Take(t, Len(t) - Len(longest))

\* "boxes", which ends in -es and in -s, lost -es
C34_Witness ==
    /\ pc = "done"
    /\ inp.op = "basic_lemma"
    /\ endswith(inp.tok, <<"e","s">>)
    /\ res \o <<"e","s">> = inp.tok
    /\ Len(res) = 3

(***************************************************************************)
(* The "going to" rewrites of the tagged glosser                           *)
(***************************************************************************)
\* C33: in sp_gloss a token with lemma "go" followed by "to" and a verb,
\* and likewise "gonna" followed by a verb, is replaced by the upper-cased
\* lemma of that verb alone; "go to" with no verb after it contributes no
\* gloss token.
C33_GoingToVerb ==
    (pc = "done" /\ inp.op = "sp_gloss" /\ Len(inp.doc) >= 2) =>
        LET doc == inp.doc
            isgo(t) == lower(t.lemma_) = <<"g","o">>
            isto(t) == lower(t.text) = <<"t","o">>
            gonna(t) == lower(t.text) = <<"g","o","n","n","a">> IN
        /\ (Len(doc) = 3 /\ isgo(doc[1]) /\ isto(doc[2]) /\ doc[3].pos_ = "VERB")
               => res = <<upper(doc[3].lemma_)>>
        /\ (Len(doc) = 2 /\ gonna(doc[1]) /\ isgo(doc[1]) /\ doc[2].pos_ = "VERB")
               => res = <<upper(doc[2].lemma_)>>
        /\ (Len(doc) = 2 /\ isgo(doc[1]) /\ isto(doc[2]))
               => res = <<>>
        /\ (Len(doc) = 3 /\ isgo(doc[1]) /\ isto(doc[2]) /\ doc[3].pos_ = "NOUN")
               => res = <<upper(doc[3].lemma_)>>

(***************************************************************************)
(* The per-line step of the QueueStreamer                                  *)
(***************************************************************************)
\* C35: whatever a line holds, the per-line step returns without raising:
\* no line content aborts the stream.
C35_LineNeverRaises == pc # "AttributeError"

\* C36: for a record, the assets handed on are, in item order, those of the
\* clip items that have an asset and are not suppressed as repeats of the
\* label emitted last; meta items and items without an asset give nothing
\* and leave last_label alone; the groups reach the output in record order.
C36_ClipAssetsInOrder ==
    [][/\ (/\ pc = "follow" /\ pos' = pos + 1
           /\ pc' \in {"follow", "write"} /\ line'.kind = "object")
              => LET cands == SelectSeq(Get(line', "queue", <<>>),
                                  LAMBDA it : /\ Get(it, "type", "None") = "clip"
                                              /\ Truthy(Get(it, "asset", None)))
                     label(k) == Get(cands[k], "label", None)
                     prev(k) == IF k = 1 THEN last_label ELSE label(k - 1)
                     kept == {k \in 1..Len(cands) :
                                 ~(Truthy(label(k)) /\ label(k) = prev(k))}
                     nth(j) == CHOOSE k \in kept :
                                   Cardinality({l \in kept : l <= k}) = j IN
                 /\ assets' = [j \in 1..Cardinality(kept) |-> cands[nth(j)].asset]
                 /\ last_label' = IF cands = <<>> THEN last_label
                                  ELSE label(Len(cands))
       /\ (pc = "write" /\ pc' = "follow") => out' = out \o assets]_vars

\* a record with a clip that has no asset, unlabelled clips and a repeated
\* empty label was handed on after an earlier record, and its four assets
\* follow those of the earlier record in the output
C36_Witness ==
    /\ pc = "follow"
    /\ pos = 2
    /\ Get(line, "queue", <<>>) # <<>>
    /\ "asset" \notin DOMAIN line.queue[1]
    /\ Len(out) = 6
    /\ SubSeq(out, 3, 6) = assets
    /\ assets = <<<<"a.mp4">>, <<"b.mp4">>, <<"c.mp4">>, <<"a.mp4">>>>

(***************************************************************************)
(* server/main.py: the keypoint queue and add_keypoint_data                *)
(***************************************************************************)
\* queue.Queue(maxsize=100)
maxsize == 100

MaxCalls == 101   \* calls made by the first thread
MaxRaces == 1     \* calls made by every other thread
MaxGets  == 1     \* items taken by the endpoints

\* one step of a thread inside add_keypoint_data(data); the steps are the
\* points at which another thread can run: the read and the write of
\* stats['frame_count'] += 1 (line 162) and the three queue operations
\* (lines 165, 169, 170), each of them atomic under the queue's lock
add_keypoint_data(p) ==
    LET a == adders[p]
        full == Len(keypoint_queue) >= maxsize
        at(l) == [adders EXCEPT ![p].pc = l]
    IN
    /\ IF a.pc = "idle"
       THEN \* the call starts and reads stats['frame_count']
            /\ a.calls < (IF p = 1 THEN MaxCalls ELSE MaxRaces)
            /\ adders' = [adders EXCEPT ![p] = [pc |-> "store",
                                                count |-> stats.frame_count,
                                                calls |-> a.calls + 1]]
            /\ UNCHANGED <<keypoint_queue, stats>>
       ELSE IF a.pc = "store"
       THEN \* stats['frame_count'] = <the value read> + 1
            /\ stats' = [stats EXCEPT !.frame_count = a.count + 1]
            /\ adders' = at("put")
            /\ UNCHANGED keypoint_queue
       ELSE IF a.pc = "put"
       THEN \* line 165: put_nowait, queue.Full caught at line 166
            IF full
            THEN adders' = at("evict") /\ UNCHANGED <<keypoint_queue, stats>>
            ELSE /\ keypoint_queue' = Append(keypoint_queue, "data")
                 /\ adders' = at("idle")
                 /\ UNCHANGED stats
       ELSE IF a.pc = "evict"
       THEN \* line 169: get_nowait, queue.Empty caught at lines 171-172
            IF keypoint_queue = <<>>
            THEN adders' = at("idle") /\ UNCHANGED <<keypoint_queue, stats>>
            ELSE /\ keypoint_queue' = Tail(keypoint_queue)
                 /\ adders' = at("reput")
                 /\ UNCHANGED stats
       ELSE \* line 170: put_nowait inside the handler of queue.Full; a
            \* second queue.Full is caught by nothing
            /\ a.pc = "reput"
            /\ IF full
               THEN adders' = at("Full") /\ UNCHANGED <<keypoint_queue, stats>>
               ELSE /\ keypoint_queue' = Append(keypoint_queue, "data")
                    /\ adders' = at("idle")
                    /\ UNCHANGED stats
    /\ UNCHANGED <<in_burst, last_spoken, last_emitted, out, line, file, exists,
                   pc, pos, info, app, fed, wops, buf, seen, inp, res,
                   last_label, assets, last_seen, repeats, gets>>

\* an endpoint takes the oldest item (keypoint_queue.get_nowait(), lines 86,
\* 100 and 149; on an empty queue queue.Empty is caught and nothing changes)
get_nowait ==
    /\ gets < MaxGets
    /\ keypoint_queue # <<>>
    /\ keypoint_queue' = Tail(keypoint_queue)
    /\ gets' = gets + 1
    /\ UNCHANGED <<in_burst, last_spoken, last_emitted, out, line, file, exists,
                   pc, pos, info, app, fed, wops, buf, seen, inp, res,
                   last_label, assets, last_seen, repeats, stats, adders>>

ServerInit ==
    /\ in_burst = FALSE
    /\ last_spoken = None
    /\ last_emitted = None
    /\ out = <<>>
    /\ line = <<>>
    /\ file = <<>>
    /\ exists = FALSE
    /\ pc = "serving"
    /\ pos = 0
    /\ info = 0
    /\ app = None
    /\ fed = <<>>
    /\ wops = 0
    /\ buf = <<>>
    /\ seen = {}
    /\ inp = None
    /\ res = None
    /\ last_label = None
    /\ assets = <<>>
    /\ last_seen = <<>>
    /\ repeats = 0
    /\ keypoint_queue = <<>>
    /\ stats = [frame_count |-> 0]
    /\ adders = [p \in Producers |-> [pc |-> "idle", count |-> 0, calls |-> 0]]
    /\ gets = 0

ServerNext ==
    \/ \E p \in Producers : add_keypoint_data(p)
    \/ get_nowait

ServerSpec == ServerInit /\ [][ServerNext]_vars

\* C40: under every interleaving of producers and consumers the keypoint
\* queue never holds more than 100 items, no call of add_keypoint_data
\* raises, and whenever no call is in progress frame_count is the number of
\* calls made.
C40_QueueBoundedNeverRaises ==
    /\ Len(keypoint_queue) <= maxsize
    /\ \A p \in Producers : adders[p].pc # "Full"
    /\ (\A p \in Producers : adders[p].pc = "idle") =>
          stats.frame_count = adders[1].calls + adders[2].calls

====
